---------------------------- MODULE Spec2Model ----------------------------
(***************************************************************************)
(* goodplace-map: the CMS synchronisation engine.                          *)
(*                                                                         *)
(* The model covers the webhook handler (app/api/webhooks/cms-sync), the   *)
(* full reconciliation job (app/api/sync) and the relational store they    *)
(* write (db/schema.ts).  Every awaited database statement of a handler is *)
(* one atomic step, so that the states between two statements are the      *)
(* states a concurrent reader can observe.                                 *)
(***************************************************************************)
EXTENDS Integers, Sequences, FiniteSets, TLC

VARIABLES
  db,        \* the store: one set of rows per table of db/schema.ts
  env,       \* the deployment's configuration (WebhookEnv / SyncEnv)
  now,       \* Date.now(), in milliseconds
  handler,   \* per webhook invocation: position in POST and its locals
  job,       \* the reconciliation run: position in POST of the sync route and its locals
  synced,    \* history: per junction table, the rows the last completed updates call for
  reader     \* one call of the list endpoint: position in GET and its locals

vars == <<db, env, now, handler, job, synced, reader>>

-----------------------------------------------------------------------------
(* Bounds of the model *)

MaxClock == 1     \* the clock advances at most this many milliseconds
MaxRefs == 2      \* longest tag reference list of an item
MaxItems == 2     \* longest listing a collection returns
PageLimit == 2    \* items a page holds at most (the route asks for 100)
MaxOffset == 4    \* the source is asked for no page beyond this offset

-----------------------------------------------------------------------------
(* JavaScript values.  A string is a sequence of one-character strings, so *)
(* that split, trim, parseFloat and parseInt are computed, not assumed.    *)
(* A number is an integer count of hundredths (52.01 is 5201).             *)

Undefined == [t |-> "undefined", s |-> <<>>, n |-> 0]
Null == [t |-> "null", s |-> <<>>, n |-> 0]
NaN == [t |-> "NaN", s |-> <<>>, n |-> 0]
Str(cs) == [t |-> "string", s |-> cs, n |-> 0]
Num(n) == [t |-> "number", s |-> <<>>, n |-> n]

Digits == {"0", "1", "2", "3", "4", "5", "6", "7", "8", "9"}

DigitVal(c) ==
  CASE c = "0" -> 0 [] c = "1" -> 1 [] c = "2" -> 2 [] c = "3" -> 3
    [] c = "4" -> 4 [] c = "5" -> 5 [] c = "6" -> 6 [] c = "7" -> 7
    [] c = "8" -> 8 [] c = "9" -> 9

\* JavaScript truthiness of a value used in a condition
Truthy(v) ==
  CASE v.t = "string" -> v.s # <<>>
    [] v.t = "number" -> v.n # 0
    [] OTHER -> FALSE

\* String.prototype.trim, on the blank the inputs use
RECURSIVE TrimLeft(_)
TrimLeft(cs) == IF cs # <<>> /\ Head(cs) = " " THEN TrimLeft(Tail(cs)) ELSE cs

RECURSIVE TrimRight(_)
TrimRight(cs) ==
  IF cs # <<>> /\ cs[Len(cs)] = " " THEN TrimRight(SubSeq(cs, 1, Len(cs) - 1)) ELSE cs

Trim(cs) == TrimRight(TrimLeft(cs))

\* String.prototype.split(','): the pieces between the commas
RECURSIVE SplitFrom(_, _)
SplitFrom(cs, cur) ==
  IF cs = <<>> THEN <<cur>>
  ELSE IF Head(cs) = "," THEN <<cur>> \o SplitFrom(Tail(cs), <<>>)
  ELSE SplitFrom(Tail(cs), Append(cur, Head(cs)))

Split(cs) == SplitFrom(cs, <<>>)

\* the longest prefix of cs made of digits
RECURSIVE DigitPrefix(_)
DigitPrefix(cs) ==
  IF cs # <<>> /\ Head(cs) \in Digits THEN <<Head(cs)>> \o DigitPrefix(Tail(cs)) ELSE <<>>

RECURSIVE DigitsValue(_, _)
DigitsValue(ds, acc) ==
  IF ds = <<>> THEN acc ELSE DigitsValue(Tail(ds), acc * 10 + DigitVal(Head(ds)))

\* the first two fraction digits, as hundredths
Hundredths(fs) ==
  IF fs = <<>> THEN 0
  ELSE IF Len(fs) = 1 THEN 10 * DigitVal(fs[1])
  ELSE 10 * DigitVal(fs[1]) + DigitVal(fs[2])

\* parseFloat on an unsigned decimal literal: the longest numeric prefix
UnsignedFloat(cs) ==
  LET ip == DigitPrefix(cs)
      rest == SubSeq(cs, Len(ip) + 1, Len(cs))
      fp == IF rest # <<>> /\ Head(rest) = "." THEN DigitPrefix(Tail(rest)) ELSE <<>>
  IN IF ip = <<>> /\ fp = <<>> THEN NaN
     ELSE Num(DigitsValue(ip, 0) * 100 + Hundredths(fp))

\* parseFloat(string): leading blanks skipped, optional sign, longest numeric
\* prefix, NaN when there is none (exponents and "Infinity" are not in the inputs)
parseFloat(cs) ==
  LET t == TrimLeft(cs)
      neg == t # <<>> /\ Head(t) = "-"
      body == IF t # <<>> /\ Head(t) \in {"-", "+"} THEN Tail(t) ELSE t
      u == UnsignedFloat(body)
  IN IF u.t = "NaN" THEN NaN ELSE IF neg THEN Num(0 - u.n) ELSE u

\* parseInt(string, 10), as a plain integer; NaN when there is no digit prefix
parseInt(cs) ==
  LET t == TrimLeft(cs)
      neg == t # <<>> /\ Head(t) = "-"
      body == IF t # <<>> /\ Head(t) \in {"-", "+"} THEN Tail(t) ELSE t
      ip == DigitPrefix(body)
  IN IF ip = <<>> THEN NaN
     ELSE Num(IF neg THEN 0 - DigitsValue(ip, 0) ELSE DigitsValue(ip, 0))

\* isNaN(v): Number(v) is NaN (Number(null) is 0)
isNaN(v) == v.t \in {"NaN", "undefined"}


-----------------------------------------------------------------------------
(* Coordinate Parser *)

NoCoords == [ok |-> FALSE, latitude |-> Undefined, longitude |-> Undefined]
Coords(lat, lng) == [ok |-> TRUE, latitude |-> lat, longitude |-> lng]

RECURSIVE TrimEach(_)
TrimEach(parts) ==
  IF parts = <<>> THEN <<>> ELSE <<Trim(Head(parts))>> \o TrimEach(Tail(parts))

\* the combined "lat, lng" field: both halves must parse
CombinedCoords(coordString) ==
  IF ~Truthy(coordString) THEN NoCoords
  ELSE LET parts == TrimEach(Split(coordString.s))
       IN IF Len(parts) # 2 THEN NoCoords
          ELSE LET lat == parseFloat(parts[1])
                   lng == parseFloat(parts[2])
               IN IF ~isNaN(lat) /\ ~isNaN(lng) THEN Coords(lat, lng) ELSE NoCoords

\* the separate latitude-2 / longitude-2 fields, string or number
DiscreteCoords(lat2, lng2) ==
  IF lat2.t # "undefined" /\ lng2.t # "undefined"
  THEN LET lat == IF lat2.t = "string" THEN parseFloat(lat2.s) ELSE lat2
           lng == IF lng2.t = "string" THEN parseFloat(lng2.s) ELSE lng2
       IN IF ~isNaN(lat) /\ ~isNaN(lng) THEN Coords(lat, lng) ELSE NoCoords
  ELSE NoCoords

\* parseCoordinates of the webhook route and of the sync route (the same text):
\* the combined field first; when it yields nothing, the separate fields
parseCoordinates(fieldData) ==
  LET combined == CombinedCoords(fieldData.locationCoordinates)
  IN IF combined.ok THEN combined
     ELSE DiscreteCoords(fieldData.latitude2, fieldData.longitude2)

-----------------------------------------------------------------------------
(* Signature verification *)

MaxAge == 300000   \* milliseconds a request may be old
SigLen == 2        \* characters of a hex digest in the model

\* crypto.subtle.sign('HMAC', key, "{timestamp}:{body}") rendered as hex: the
\* keyed hash is an uninterpreted injective function of key and message, and
\* character i of its hex rendering is the triple below.
ExpectedSignature(timestamp, body, secret) ==
  [i \in 1..SigLen |-> <<secret, <<timestamp.s, ":", body>>, i>>]

\* variant: a comparison that stops one character short
MismatchButLast(expected, signature, i) ==
  IF \E k \in i..(Len(expected) - 1) : expected[k] # signature[k] THEN 1 ELSE 0

\* mismatch |= expected.charCodeAt(i) ^ signature.charCodeAt(i), for i < length
RECURSIVE Mismatch(_, _, _)
Mismatch(expected, signature, i) ==
  IF i > Len(expected) THEN 0
  ELSE LET x == IF expected[i] = signature[i] THEN 0 ELSE 1
           rest == Mismatch(expected, signature, i + 1)
       IN IF x # 0 \/ rest # 0 THEN 1 ELSE 0

ConstantTimeEqual(expected, signature) ==
  IF Len(expected) # Len(signature) THEN FALSE
  ELSE Mismatch(expected, signature, 1) = 0

\* variant: no age limit
IsStaleNever(timestamp) == FALSE

\* requests older than five minutes are refused before the hash is computed
IsStale(timestamp) ==
  LET requestTime == parseInt(timestamp.s)
  IN requestTime.t = "number" /\ now - requestTime.n > MaxAge

verifySignature(timestamp, body, signature, secret) ==
  IF ~Truthy(timestamp) \/ ~Truthy(signature) \/ secret = "" THEN FALSE
  ELSE IF IsStale(timestamp) THEN FALSE
  ELSE ConstantTimeEqual(ExpectedSignature(timestamp, body, secret), signature.s)

-----------------------------------------------------------------------------
(* The store: db/schema.ts *)

ContentTypes == {"podcast", "place", "initiative"}

EntityTable(contentType) ==
  CASE contentType = "podcast" -> "stories"
    [] contentType = "place" -> "places"
    [] contentType = "initiative" -> "initiatives"

JunctionTable(contentType) ==
  CASE contentType = "podcast" -> "storyTags"
    [] contentType = "place" -> "placeTags"
    [] contentType = "initiative" -> "initiativeTags"

JunctionTables == {"storyTags", "placeTags", "initiativeTags"}
EntityTables == {"stories", "places", "initiatives"}

EmptyDb ==
  [stories |-> {}, places |-> {}, initiatives |-> {}, tags |-> {},
   storyTags |-> {}, placeTags |-> {}, initiativeTags |-> {}]

\* a text value that was not given (JavaScript undefined, SQL NULL)
Missing == "<missing>"

\* no row, no identifier
NoId == <<"", 0>>

\* .select({ id }).from(table).where(eq(table.webflowItemId, x)).get()
FindId(rows, webflowItemId) ==
  IF \E r \in rows : r.webflowItemId = webflowItemId
  THEN (CHOOSE r \in rows : r.webflowItemId = webflowItemId).id
  ELSE NoId

\* latitude and longitude are REAL NOT NULL, title is TEXT NOT NULL
IsSqlNull(v) == v.t \in {"null", "undefined", "NaN"}

\* variant: a schema whose coordinate columns accept NULL
EntityNotNullOkTitleOnly(row) == row.title # Missing

EntityNotNullOk(row) ==
  /\ row.title # Missing
  /\ ~IsSqlNull(row.latitude)
  /\ ~IsSqlNull(row.longitude)

TagNotNullOk(row) == row.name # Missing

\* variant: a schema without the unique index on webflow_item_id
UniqueOkAlways(rows, row) == TRUE

\* webflow_item_id is UNIQUE
UniqueOk(rows, row) == \A r \in rows : r.webflowItemId # row.webflowItemId

\* variant: junction tables whose foreign keys are not enforced
JunctionInsertOkUnreferenced(d, contentType, jrow) ==
  jrow \notin d[JunctionTable(contentType)]

\* the junction tables: composite primary key, both foreign keys enforced
JunctionInsertOk(d, contentType, jrow) ==
  /\ jrow \notin d[JunctionTable(contentType)]
  /\ \E e \in d[EntityTable(contentType)] : e.id = jrow.entityId
  /\ \E t \in d.tags : t.id = jrow.tagId

\* delete from an entity table: ON DELETE CASCADE on the junction's entity key
DeleteEntityRow(d, contentType, id) ==
  [d EXCEPT ![EntityTable(contentType)] = {r \in @ : r.id # id},
            ![JunctionTable(contentType)] = {j \in @ : j.entityId # id}]

\* variant: a schema where only story_tags cascades on the tag key
DeleteTagRowStoriesOnly(d, id) ==
  [d EXCEPT !.tags = {r \in @ : r.id # id},
            !.storyTags = {j \in @ : j.tagId # id}]

\* delete from tags: ON DELETE CASCADE on the tag key of every junction table
DeleteTagRow(d, id) ==
  [d EXCEPT !.tags = {r \in @ : r.id # id},
            !.storyTags = {j \in @ : j.tagId # id},
            !.placeTags = {j \in @ : j.tagId # id},
            !.initiativeTags = {j \in @ : j.tagId # id}]

\* variant: a delete without its where clause
DeleteJunctionRowsAll(d, contentType, id) ==
  [d EXCEPT ![JunctionTable(contentType)] = {}]

\* db.delete(junction).where(eq(junction.entityId, id))
DeleteJunctionRows(d, contentType, id) ==
  [d EXCEPT ![JunctionTable(contentType)] = {j \in @ : j.entityId # id}]


-----------------------------------------------------------------------------
(* Rows *)

EntityRow(id, item, coords, createdAt, updatedAt) ==
  [id |-> id, webflowItemId |-> item.id, title |-> item.fieldData.name,
   latitude |-> coords.latitude, longitude |-> coords.longitude,
   createdAt |-> createdAt, updatedAt |-> updatedAt]

\* variant: an update that also rewrites createdAt
UpdateEntityRowsAndCreatedAt(rows, item, coords, updatedAt) ==
  {IF r.webflowItemId = item.id
   THEN [r EXCEPT !.title = IF item.fieldData.name = Missing THEN @ ELSE item.fieldData.name,
                  !.latitude = coords.latitude,
                  !.longitude = coords.longitude,
                  !.createdAt = updatedAt,
                  !.updatedAt = updatedAt]
   ELSE r : r \in rows}

\* .update(table).set({...}).where(eq(table.webflowItemId, item.id)): a value
\* that is undefined leaves its column as it was; createdAt and id are not set
UpdateEntityRows(rows, item, coords, updatedAt) ==
  {IF r.webflowItemId = item.id
   THEN [r EXCEPT !.title = IF item.fieldData.name = Missing THEN @ ELSE item.fieldData.name,
                  !.latitude = coords.latitude,
                  !.longitude = coords.longitude,
                  !.updatedAt = updatedAt]
   ELSE r : r \in rows}

TagRow(id, item) == [id |-> id, webflowItemId |-> item.id, name |-> item.fieldData.name]

UpdateTagRows(rows, item) ==
  {IF r.webflowItemId = item.id
   THEN [r EXCEPT !.name = IF item.fieldData.name = Missing THEN @ ELSE item.fieldData.name]
   ELSE r : r \in rows}

JunctionRow(entityId, tagId) == [entityId |-> entityId, tagId |-> tagId]

\* fieldData['episode-tags'] || [] (and 'tags', 'initiative-tags-2')
TagIdsOf(fieldData) == IF fieldData.tags.present THEN fieldData.tags.refs ELSE <<>>

-----------------------------------------------------------------------------
(* One invocation's locals.  The webhook handler and the reconciliation job *)
(* run the same statements on a frame f; a step yields the frame and the   *)
(* store after it.  pc "threw" is an exception on its way to the caller's  *)
(* catch.                                                                  *)

NoItem ==
  [id |-> "", collectionId |-> "",
   fieldData |-> [name |-> Missing, locationCoordinates |-> Undefined,
                  latitude2 |-> Undefined, longitude2 |-> Undefined,
                  tags |-> [present |-> FALSE, refs |-> <<>>]]]

NoFrame ==
  [pc |-> "idle", route |-> "", item |-> NoItem, contentType |-> "",
   coords |-> NoCoords, nowAt |-> 0, existing |-> NoId, entityId |-> NoId,
   tagIds |-> <<>>, i |-> 0, tag |-> NoId]

After(f, d) == [f |-> f, db |-> d]

\* the sync route replaces the junction rows only for a non-empty tag list
SkipsJunctionSync(f) == f.route = "sync" /\ Len(f.tagIds) = 0

\* variant: coordinates that do not parse raise an exception
UpsertSelectOrThrow(f, d) ==
  LET coords == parseCoordinates(f.item.fieldData)
  IN IF ~coords.ok
     THEN After([f EXCEPT !.pc = "threw"], d)
     ELSE After([f EXCEPT !.coords = coords,
                          !.existing = FindId(d[EntityTable(f.contentType)], f.item.id),
                          !.tagIds = TagIdsOf(f.item.fieldData),
                          !.pc = "upsert_write"], d)

\* upsertPodcast / upsertPlace / upsertInitiative, syncStories / syncPlaces /
\* syncInitiatives: parseCoordinates, then the lookup by external id
UpsertSelect(f, d) ==
  LET coords == parseCoordinates(f.item.fieldData)
  IN IF ~coords.ok
     THEN After([f EXCEPT !.pc = "applied"], d)
     ELSE After([f EXCEPT !.coords = coords,
                          !.existing = FindId(d[EntityTable(f.contentType)], f.item.id),
                          !.tagIds = TagIdsOf(f.item.fieldData),
                          !.pc = "upsert_write"], d)

\* variant: a found row is replaced by a new row under a new identifier
UpsertWriteReplacing(f, d, id) ==
  LET table == EntityTable(f.contentType)
      next == IF SkipsJunctionSync(f) THEN "applied" ELSE "junction_delete"
      row == EntityRow(id, f.item, f.coords, f.nowAt, f.nowAt)
      cleared == IF f.existing # NoId THEN DeleteEntityRow(d, f.contentType, f.existing) ELSE d
  IN IF EntityNotNullOk(row) /\ UniqueOk(cleared[table], row)
     THEN After([f EXCEPT !.entityId = id, !.pc = next],
                [cleared EXCEPT ![table] = @ \cup {row}])
     ELSE After([f EXCEPT !.pc = "threw"], d)

\* the update of the found row, or the insert under a new identifier
UpsertWrite(f, d, id) ==
  LET table == EntityTable(f.contentType)
      next == IF SkipsJunctionSync(f) THEN "applied" ELSE "junction_delete"
  IN IF f.existing # NoId
     THEN LET rows == UpdateEntityRows(d[table], f.item, f.coords, f.nowAt)
          IN IF \A r \in rows : EntityNotNullOk(r)
             THEN After([f EXCEPT !.entityId = f.existing, !.pc = next],
                        [d EXCEPT ![table] = rows])
             ELSE After([f EXCEPT !.pc = "threw"], d)
     ELSE LET row == EntityRow(id, f.item, f.coords, f.nowAt, f.nowAt)
          IN IF EntityNotNullOk(row) /\ UniqueOk(d[table], row)
             THEN After([f EXCEPT !.entityId = id, !.pc = next],
                        [d EXCEPT ![table] = @ \cup {row}])
             ELSE After([f EXCEPT !.pc = "threw"], d)

\* the loop of syncPodcastTagJunction and its five copies, from reference i
JunctionLoop(f, i) ==
  IF i <= Len(f.tagIds) THEN [f EXCEPT !.i = i, !.pc = "junction_select"]
  ELSE [f EXCEPT !.i = i, !.pc = "applied"]

\* variant: a junction sync that inserts without deleting first
JunctionDeleteNothing(f, d) == After(JunctionLoop(f, 1), d)

\* db.delete(junction).where(eq(junction.entityId, id))
JunctionDelete(f, d) ==
  After(JunctionLoop(f, 1), DeleteJunctionRows(d, f.contentType, f.entityId))

\* variant: a lookup that takes a reference without a tag for an error
JunctionSelectOrThrow(f, d) ==
  LET tag == FindId(d.tags, f.tagIds[f.i])
  IN IF tag # NoId
     THEN After([f EXCEPT !.tag = tag, !.pc = "junction_insert"], d)
     ELSE After([f EXCEPT !.pc = "threw"], d)

\* the lookup of one referenced tag; a reference that finds no tag is passed over
JunctionSelect(f, d) ==
  LET tag == FindId(d.tags, f.tagIds[f.i])
  IN IF tag # NoId
     THEN After([f EXCEPT !.tag = tag, !.pc = "junction_insert"], d)
     ELSE After(JunctionLoop(f, f.i + 1), d)

\* db.insert(junction).values({ entityId, tagId })
JunctionInsert(f, d) ==
  LET jrow == JunctionRow(f.entityId, f.tag)
  IN IF JunctionInsertOk(d, f.contentType, jrow)
     THEN After(JunctionLoop(f, f.i + 1),
                [d EXCEPT ![JunctionTable(f.contentType)] = @ \cup {jrow}])
     ELSE After([f EXCEPT !.pc = "threw"], d)

\* deletePodcast / deletePlace / deleteInitiative
DeleteSelect(f, d) ==
  LET existing == FindId(d[EntityTable(f.contentType)], f.item.id)
  IN IF existing # NoId
     THEN After([f EXCEPT !.existing = existing, !.pc = "delete_junction"], d)
     ELSE After([f EXCEPT !.pc = "applied"], d)

DeleteJunction(f, d) ==
  After([f EXCEPT !.pc = "delete_row"], DeleteJunctionRows(d, f.contentType, f.existing))

DeleteRow(f, d) ==
  After([f EXCEPT !.pc = "applied"], DeleteEntityRow(d, f.contentType, f.existing))

\* upsertTag, syncTagsFromCollection
TagSelect(f, d) ==
  After([f EXCEPT !.existing = FindId(d.tags, f.item.id), !.pc = "tag_write"], d)

TagWrite(f, d, id) ==
  IF f.existing # NoId
  THEN After([f EXCEPT !.pc = "applied"],
             [d EXCEPT !.tags = UpdateTagRows(@, f.item)])
  ELSE LET row == TagRow(id, f.item)
       IN IF TagNotNullOk(row) /\ UniqueOk(d.tags, row)
          THEN After([f EXCEPT !.pc = "applied"], [d EXCEPT !.tags = @ \cup {row}])
          ELSE After([f EXCEPT !.pc = "threw"], d)

\* deleteTag
TagDeleteSelect(f, d) ==
  LET tag == FindId(d.tags, f.item.id)
  IN IF tag # NoId
     THEN After([f EXCEPT !.existing = tag, !.pc = "tagdelete_row"], d)
     ELSE After([f EXCEPT !.pc = "applied"], d)

TagDeleteRow(f, d) ==
  After([f EXCEPT !.pc = "applied"], DeleteTagRow(d, f.existing))


-----------------------------------------------------------------------------
(* History: what the last completed update of each entity calls for *)

\* the local tags a reference list resolves to
RECURSIVE ResolveTagIds(_, _)
ResolveTagIds(tagIds, tagRows) ==
  IF tagIds = <<>> THEN {}
  ELSE (IF FindId(tagRows, Head(tagIds)) # NoId THEN {FindId(tagRows, Head(tagIds))} ELSE {})
       \cup ResolveTagIds(Tail(tagIds), tagRows)

JunctionOf(d, contentType, entityId) ==
  {j.tagId : j \in {x \in d[JunctionTable(contentType)] : x.entityId = entityId}}

\* f has just taken a step from pc `was` on store d
Record(sy, was, f, d) ==
  IF f.pc = "applied" /\ was \in {"upsert_write", "junction_delete", "junction_select", "junction_insert"}
  THEN [sy EXCEPT ![JunctionTable(f.contentType)] =
          {j \in @ : j.entityId # f.entityId}
          \cup {JunctionRow(f.entityId, t) : t \in ResolveTagIds(f.tagIds, d.tags)}]
  ELSE IF was = "delete_row"
  THEN [sy EXCEPT ![JunctionTable(f.contentType)] = {j \in @ : j.entityId # f.existing}]
  ELSE IF was = "tagdelete_row"
  THEN [sy EXCEPT !.storyTags = {j \in @ : j.tagId # f.existing},
                  !.placeTags = {j \in @ : j.tagId # f.existing},
                  !.initiativeTags = {j \in @ : j.tagId # f.existing}]
  ELSE sy

NoSynced == [storyTags |-> {}, placeTags |-> {}, initiativeTags |-> {}]

-----------------------------------------------------------------------------
(* The webhook route: POST *)

Handlers == {1, 2}

NoRequest ==
  [timestamp |-> Null, signature |-> Null,
   body |-> [triggerType |-> "", payload |-> NoItem]]

IdleHandler ==
  NoFrame @@ [req |-> NoRequest, isDelete |-> FALSE, status |-> 0,
              attempt |-> 0, pre |-> EmptyDb]

\* variant: a map that takes every collection it does not know for a tag collection
CollectionMapOrTag(collectionId) ==
  IF collectionId = "" THEN ""
  ELSE IF collectionId = env.WEBFLOW_INITIATIVES_COLLECTION_ID THEN "initiative"
  ELSE IF collectionId = env.WEBFLOW_PLACES_COLLECTION_ID THEN "place"
  ELSE IF collectionId = env.WEBFLOW_STORIES_COLLECTION_ID THEN "podcast"
  ELSE "tag"

\* collectionMap: a later set() of the same key replaces an earlier one
CollectionMap(collectionId) ==
  IF collectionId = "" THEN ""
  ELSE IF collectionId = env.WEBFLOW_INITIATIVE_TAGS_COLLECTION_ID THEN "tag"
  ELSE IF collectionId = env.WEBFLOW_PLACE_TAGS_COLLECTION_ID THEN "tag"
  ELSE IF collectionId = env.WEBFLOW_STORY_TAGS_COLLECTION_ID THEN "tag"
  ELSE IF collectionId = env.WEBFLOW_INITIATIVES_COLLECTION_ID THEN "initiative"
  ELSE IF collectionId = env.WEBFLOW_PLACES_COLLECTION_ID THEN "place"
  ELSE IF collectionId = env.WEBFLOW_STORIES_COLLECTION_ID THEN "podcast"
  ELSE ""

Terminal == {"acknowledged", "rejected", "failed"}

\* variant: a request is handed to routing as it arrives
ReceiveUnauthenticated(p, Requests) ==
  /\ handler[p].pc = "idle"
  /\ \E r \in Requests :
       handler' = [handler EXCEPT ![p] =
                     [IdleHandler EXCEPT !.pc = "authenticated", !.route = "webhook",
                                         !.req = r, !.attempt = 1, !.pre = db]]
  /\ UNCHANGED <<db, env, reader, now, job, synced>>

\* a request arrives; the source draws it from Requests
Receive(p, Requests) ==
  /\ handler[p].pc = "idle"
  /\ \E r \in Requests :
       handler' = [handler EXCEPT ![p] =
                     [IdleHandler EXCEPT !.pc = "received", !.route = "webhook",
                                         !.req = r, !.attempt = 1, !.pre = db]]
  /\ UNCHANGED <<db, env, reader, now, job, synced>>

\* at-least-once delivery: the source sends the finished request once more
Redeliver(p) ==
  /\ handler[p].pc \in Terminal
  /\ handler[p].attempt = 1
  /\ handler' = [handler EXCEPT ![p] =
                   [IdleHandler EXCEPT !.pc = "received", !.route = "webhook",
                                       !.req = handler[p].req, !.attempt = 2,
                                       !.status = handler[p].status, !.pre = db]]
  /\ UNCHANGED <<db, env, reader, now, job, synced>>

\* variant: the signature is verified whether or not a secret is configured
AuthenticateAlways(p) ==
  LET h == handler[p]
      timestamp == h.req.timestamp
      signature == h.req.signature
      webhookSecret == env.WEBFLOW_WEBHOOK_SECRET
  IN /\ h.pc = "received"
     /\ handler' = [handler EXCEPT ![p] =
          IF ~Truthy(timestamp) \/ ~Truthy(signature)
          THEN [h EXCEPT !.pc = "rejected", !.status = 401]
          ELSE IF ~verifySignature(timestamp, h.req.body, signature, webhookSecret)
          THEN [h EXCEPT !.pc = "rejected", !.status = 401]
          ELSE [h EXCEPT !.pc = "authenticated", !.status = 0]]
     /\ UNCHANGED <<db, env, reader, now, job, synced>>

\* the header check and the signature check
Authenticate(p) ==
  LET h == handler[p]
      timestamp == h.req.timestamp
      signature == h.req.signature
      webhookSecret == env.WEBFLOW_WEBHOOK_SECRET
  IN /\ h.pc = "received"
     /\ handler' = [handler EXCEPT ![p] =
          IF ~Truthy(timestamp) \/ ~Truthy(signature)
          THEN [h EXCEPT !.pc = "rejected", !.status = 401]
          ELSE IF webhookSecret # ""
                  /\ ~verifySignature(timestamp, h.req.body, signature, webhookSecret)
          THEN [h EXCEPT !.pc = "rejected", !.status = 401]
          ELSE [h EXCEPT !.pc = "authenticated", !.status = 0]]
     /\ UNCHANGED <<db, env, reader, now, job, synced>>

\* JSON.parse, the collection map and the unknown-collection reply
Route(p) ==
  LET h == handler[p]
      payload == h.req.body.payload
      triggerType == h.req.body.triggerType
      contentType == CollectionMap(payload.collectionId)
  IN /\ h.pc = "authenticated"
     /\ handler' = [handler EXCEPT ![p] =
          IF contentType = ""
          THEN [h EXCEPT !.pc = "acknowledged", !.status = 200]
          ELSE [h EXCEPT !.pc = "routed", !.item = payload, !.contentType = contentType,
                         !.isDelete = triggerType \in {"collection_item_deleted",
                                                       "collection_item_unpublished"}]]
     /\ UNCHANGED <<db, env, reader, now, job, synced>>

\* crypto.randomUUID(): an identifier nothing in the state holds.  Identifiers
\* are only compared for equality, so one name stands for any unused value: the
\* item's external id with the least serial number not held anywhere.
IdsOfDb(d) ==
  UNION {{r.id : r \in d[t]} : t \in EntityTables \cup {"tags"}}
  \cup UNION {{j.entityId : j \in d[t]} \cup {j.tagId : j \in d[t]} : t \in JunctionTables}

IdsOfFrame(f) == {f.existing, f.entityId, f.tag}

UsedIds ==
  IdsOfDb(db) \cup IdsOfFrame(job)
  \cup UNION {{j.entityId : j \in synced[t]} \cup {j.tagId : j \in synced[t]} : t \in JunctionTables}
  \cup UNION {IdsOfFrame(handler[p]) \cup IdsOfDb(handler[p].pre) : p \in Handlers}

randomUUID(webflowItemId) ==
  LET held == {id[2] : id \in {x \in UsedIds : x[1] = webflowItemId}}
      serial == CHOOSE i \in 1..(Cardinality(held) + 1) :
                  i \notin held /\ \A j \in 1..(i - 1) : j \in held
  IN <<webflowItemId, serial>>

\* the catch of POST: an exception becomes the 500 reply
Caught(f) == IF f.pc = "threw" THEN [f EXCEPT !.pc = "failed", !.status = 500] ELSE f

Run(p, r) ==
  /\ handler' = [handler EXCEPT ![p] = Caught(r.f)]
  /\ db' = r.db
  /\ synced' = Record(synced, handler[p].pc, r.f, r.db)
  /\ UNCHANGED <<env, reader, now, job>>

UpsertEntity(p) ==
  LET h == handler[p]
  IN \/ /\ h.pc = "routed" /\ h.contentType \in ContentTypes /\ ~h.isDelete
        /\ Run(p, UpsertSelect([h EXCEPT !.nowAt = now], db))
     \/ /\ h.pc = "upsert_write"
        /\ Run(p, UpsertWrite(h, db, randomUUID(h.item.id)))

SyncTagJunction(p) ==
  LET h == handler[p]
  IN \/ /\ h.pc = "junction_delete"
        /\ Run(p, JunctionDelete(h, db))
     \/ /\ h.pc = "junction_select"
        /\ Run(p, JunctionSelect(h, db))
     \/ /\ h.pc = "junction_insert"
        /\ Run(p, JunctionInsert(h, db))

DeleteEntity(p) ==
  LET h == handler[p]
  IN \/ /\ h.pc = "routed" /\ h.contentType \in ContentTypes /\ h.isDelete
        /\ Run(p, DeleteSelect(h, db))
     \/ /\ h.pc = "delete_junction"
        /\ Run(p, DeleteJunction(h, db))
     \/ /\ h.pc = "delete_row"
        /\ Run(p, DeleteRow(h, db))

UpsertTag(p) ==
  LET h == handler[p]
  IN \/ /\ h.pc = "routed" /\ h.contentType = "tag" /\ ~h.isDelete
        /\ Run(p, TagSelect(h, db))
     \/ /\ h.pc = "tag_write"
        /\ Run(p, TagWrite(h, db, randomUUID(h.item.id)))

DeleteTag(p) ==
  LET h == handler[p]
  IN \/ /\ h.pc = "routed" /\ h.contentType = "tag" /\ h.isDelete
        /\ Run(p, TagDeleteSelect(h, db))
     \/ /\ h.pc = "tagdelete_row"
        /\ Run(p, TagDeleteRow(h, db))

\* the 200 reply after the try block
Acknowledge(p) ==
  /\ handler[p].pc = "applied"
  /\ handler' = [handler EXCEPT ![p] = [@ EXCEPT !.pc = "acknowledged", !.status = 200]]
  /\ UNCHANGED <<db, env, reader, now, job, synced>>

\* the invocation is over
Finish(p) ==
  /\ handler[p].pc \in Terminal
  /\ handler' = [handler EXCEPT ![p] = IdleHandler]
  /\ UNCHANGED <<db, env, reader, now, job, synced>>

\* Date.now() advances
Epoch == MaxAge + 100000

Tick ==
  /\ now < Epoch + MaxClock
  /\ now' = now + 1
  /\ UNCHANGED <<db, env, reader, handler, job, synced>>

-----------------------------------------------------------------------------
(* The sync route: POST, the full reconciliation job *)

\* listed is history: the ids of the tag items the run's listings have named
IdleJob ==
  NoFrame @@ [phase |-> 0, items |-> <<>>, k |-> 0, status |-> 0, offset |-> 0, listed |-> {}]

\* the collections in the order POST walks them: the tag collections first
Phases == 1..6

PhaseCollection(phase) ==
  CASE phase = 1 -> env.WEBFLOW_STORY_TAGS_COLLECTION_ID
    [] phase = 2 -> env.WEBFLOW_PLACE_TAGS_COLLECTION_ID
    [] phase = 3 -> env.WEBFLOW_INITIATIVE_TAGS_COLLECTION_ID
    [] phase = 4 -> env.WEBFLOW_STORIES_COLLECTION_ID
    [] phase = 5 -> env.WEBFLOW_PLACES_COLLECTION_ID
    [] phase = 6 -> env.WEBFLOW_INITIATIVES_COLLECTION_ID

\* variant: a run that takes the stories first and the story tags fourth
PhaseTypeStoriesFirst(phase) ==
  CASE phase \in {2, 3, 4} -> "tag"
    [] phase = 1 -> "podcast"
    [] phase = 5 -> "place"
    [] phase = 6 -> "initiative"

PhaseType(phase) ==
  CASE phase \in {1, 2, 3} -> "tag"
    [] phase = 4 -> "podcast"
    [] phase = 5 -> "place"
    [] phase = 6 -> "initiative"

\* the next collection, or the reply once the last one is done
NextPhase(j) ==
  IF j.phase = 6 THEN [j EXCEPT !.pc = "done", !.status = 200]
  ELSE [j EXCEPT !.phase = j.phase + 1, !.pc = "fetch", !.items = <<>>, !.k = 0]

\* for (const item of items): item k, or the end of the collection
NextItem(j, k) ==
  IF k <= Len(j.items)
  THEN [j EXCEPT !.k = k, !.pc = "item", !.item = j.items[k],
                 !.contentType = PhaseType(j.phase), !.coords = NoCoords,
                 !.existing = NoId, !.entityId = NoId, !.tagIds = <<>>,
                 !.i = 0, !.tag = NoId]
  ELSE NextPhase(j)

\* the catch of POST: an exception ends the run with the 500 reply
SyncCaught(j) == IF j.pc = "threw" THEN [j EXCEPT !.pc = "failed", !.status = 500] ELSE j

RunJob(r) ==
  /\ job' = SyncCaught(r.f)
  /\ db' = r.db
  /\ synced' = Record(synced, job.pc, r.f, r.db)
  /\ UNCHANGED <<env, reader, now, handler>>

\* the bearer check, then the first collection
StartSync ==
  /\ job.pc = "idle"
  /\ \E authorized \in BOOLEAN :
       job' = IF authorized
              THEN [IdleJob EXCEPT !.pc = "fetch", !.route = "sync", !.phase = 1]
              ELSE [IdleJob EXCEPT !.pc = "rejected", !.route = "sync", !.status = 401]
  /\ UNCHANGED <<db, env, reader, now, handler, synced>>

Listed(j, items) ==
  IF PhaseType(j.phase) = "tag"
  THEN j.listed \cup {items[k].id : k \in 1..Len(items)}
  ELSE j.listed

\* variant: a fetch that also removes the entities the listing leaves out
fetchWebflowItemsPruning(listings) ==
  /\ job.pc = "fetch"
  /\ IF PhaseCollection(job.phase) = ""
     THEN job' = NextPhase(job) /\ db' = db
     ELSE \/ \E items \in listings[job.phase] :
               /\ job' = NextItem([job EXCEPT !.items = items, !.nowAt = now,
                                              !.listed = Listed(job, items)], 1)
               /\ db' = IF PhaseType(job.phase) \in ContentTypes
                        THEN [db EXCEPT ![EntityTable(PhaseType(job.phase))] =
                                {r \in @ : \E k \in 1..Len(items) : items[k].id = r.webflowItemId}]
                        ELSE db
          \/ job' = SyncCaught([job EXCEPT !.pc = "threw"]) /\ db' = db
  /\ UNCHANGED <<env, reader, now, handler, synced>>

\* fetchWebflowItems: the listing of the phase's collection, or a failed
\* response; a collection that is not configured is passed over.  The entity
\* syncs take their timestamp once, after the fetch.
fetchWebflowItems(listings) ==
  /\ job.pc = "fetch"
  /\ IF PhaseCollection(job.phase) = ""
     THEN job' = NextPhase(job)
     ELSE \/ \E items \in listings[job.phase] :
               job' = NextItem([job EXCEPT !.items = items, !.nowAt = now,
                                           !.listed = Listed(job, items)], 1)
          \/ job' = SyncCaught([job EXCEPT !.pc = "threw"])
  /\ UNCHANGED <<db, env, reader, now, handler, synced>>

\* syncTagsFromCollection: one item's lookup, then its update or insert
syncTagsFromCollection ==
  \/ /\ job.pc = "item" /\ job.contentType = "tag"
     /\ RunJob(TagSelect(job, db))
  \/ /\ job.pc = "tag_write"
     /\ RunJob(TagWrite(job, db, randomUUID(job.item.id)))

\* syncStories / syncPlaces / syncInitiatives: one item's parse and lookup,
\* then its update or insert
syncStories ==
  \/ /\ job.pc = "item" /\ job.contentType \in ContentTypes
     /\ RunJob(UpsertSelect(job, db))
  \/ /\ job.pc = "upsert_write"
     /\ RunJob(UpsertWrite(job, db, randomUUID(job.item.id)))

\* syncStoryTagJunction / syncPlaceTagJunction / syncInitiativeTagJunction
syncStoryTagJunction ==
  \/ /\ job.pc = "junction_delete"
     /\ RunJob(JunctionDelete(job, db))
  \/ /\ job.pc = "junction_select"
     /\ RunJob(JunctionSelect(job, db))
  \/ /\ job.pc = "junction_insert"
     /\ RunJob(JunctionInsert(job, db))

\* count++ and the next turn of the loop
Continue ==
  /\ job.pc = "applied"
  /\ job' = NextItem(job, job.k + 1)
  /\ UNCHANGED <<db, env, reader, now, handler, synced>>

\* the run is over
FinishSync ==
  /\ job.pc \in {"done", "failed", "rejected"}
  /\ job' = IdleJob
  /\ UNCHANGED <<db, env, reader, now, handler, synced>>

Sync(listings) ==
  \/ StartSync
  \/ fetchWebflowItems(listings)
  \/ syncTagsFromCollection
  \/ syncStories
  \/ syncStoryTagJunction
  \/ Continue
  \/ FinishSync

-----------------------------------------------------------------------------
(* fetchWebflowItems page by page: the loop the runs above take in one step *)

NoPagination == [present |-> FALSE, total |-> 0]

\* allItems = [], offset = 0
StartFetch ==
  /\ job.pc = "idle"
  /\ job' = [IdleJob EXCEPT !.pc = "fetch_page", !.route = "sync", !.phase = 1]
  /\ UNCHANGED <<db, env, reader, now, handler, synced>>

\* one turn of while (true): a response that is not ok throws; otherwise the
\* page's items are appended and the loop ends when the response has no
\* pagination or the count has reached its total
FetchPage(Responses) ==
  /\ job.pc = "fetch_page"
  /\ job.offset <= MaxOffset
  /\ \/ \E response \in Responses :
          LET allItems == job.items \o response.items
          IN job' = IF ~response.pagination.present
                       \/ Len(allItems) >= response.pagination.total
                    THEN [job EXCEPT !.items = allItems, !.pc = "fetched"]
                    ELSE [job EXCEPT !.items = allItems, !.offset = @ + PageLimit]
     \/ job' = SyncCaught([job EXCEPT !.pc = "threw"])
  /\ UNCHANGED <<db, env, reader, now, handler, synced>>

\* return allItems, or the 500 reply of the run
FinishFetch ==
  /\ job.pc \in {"fetched", "failed"}
  /\ job' = IdleJob
  /\ UNCHANGED <<db, env, reader, now, handler, synced>>

-----------------------------------------------------------------------------
(* The list endpoint: GET /api/podcasts (GET /api/places has the same text) *)

IdleReader ==
  [pc |-> "idle", tagIds |-> <<>>, items |-> <<>>, tags |-> <<>>,
   tagsFailed |-> FALSE, route |-> "", path |-> "", result |-> <<>>, status |-> 0]

\* A Webflow item id as the text of a request or of a live tag object.  Local
\* ids are UUIDs, written <<w, n>> with n >= 1, so the two never coincide.
ExternalId(w) == <<w, 0>>

\* searchParams.get('tags')?.split(',').filter(Boolean) || []: the parameter is
\* absent (Null) or a list of parts, the empty part written NoId
TagIdsParam(param) ==
  IF param = Null THEN <<>> ELSE SelectSeq(param, LAMBDA part : part # NoId)

InArray(x, list) == \E k \in 1..Len(list) : list[k] = x

\* fetchFromDatabase: the stories with a junction row on one of the tags, or
\* every story; each with its tags joined in.  The ordering by publishedAt is
\* not part of the model's rows.
fetchFromDatabase(d, tagIds) ==
  LET storyIds == {j.entityId : j \in {x \in d.storyTags : InArray(x.tagId, tagIds)}}
      storyList == IF Len(tagIds) > 0
                   THEN {r \in d.stories : r.id \in storyIds}
                   ELSE d.stories
  IN {[id |-> story.id, webflowItemId |-> story.webflowItemId,
       title |-> story.title, latitude |-> story.latitude, longitude |-> story.longitude,
       tags |-> {[id |-> t.id, name |-> t.name] :
                   t \in {x \in d.tags : JunctionRow(story.id, x.id) \in d.storyTags}}] :
        story \in storyList}

\* getStoryTagsFromWebflow and the Map made of it: Tag objects by Webflow id
TagsMap(tagItems) ==
  {[id |-> ExternalId(tagItems[k].id), name |-> tagItems[k].fieldData.name] :
     k \in 1..Len(tagItems)}

\* the coordinates transformEpisode takes: the combined field when it is
\* there, else both separate fields, else nothing
EpisodeCoords(fieldData) ==
  IF Truthy(fieldData.locationCoordinates)
  THEN CombinedCoords(fieldData.locationCoordinates)
  ELSE IF Truthy(fieldData.latitude2) /\ Truthy(fieldData.longitude2)
  THEN LET lat == IF fieldData.latitude2.t = "string"
                  THEN parseFloat(fieldData.latitude2.s) ELSE fieldData.latitude2
           lng == IF fieldData.longitude2.t = "string"
                  THEN parseFloat(fieldData.longitude2.s) ELSE fieldData.longitude2
       IN IF isNaN(lat) \/ isNaN(lng) THEN NoCoords ELSE Coords(lat, lng)
  ELSE NoCoords

\* transformEpisode, for an episode whose coordinates were found
transformEpisode(episode, tagsMap) ==
  LET coords == EpisodeCoords(episode.fieldData)
      refs == TagIdsOf(episode.fieldData)
      known == SelectSeq(refs, LAMBDA ref : \E tag \in tagsMap : tag.id = ExternalId(ref))
  IN [id |-> episode.id, webflowItemId |-> episode.id,
      title |-> episode.fieldData.name,
      latitude |-> coords.latitude, longitude |-> coords.longitude,
      tags |-> [k \in 1..Len(known) |->
                  CHOOSE tag \in tagsMap : tag.id = ExternalId(known[k])]]

\* getPodcastsFromWebflow: map, drop the nulls, filter on the tags.  The sort
\* by publishedAt is not part of the model's items.
getPodcastsFromWebflow(items, tagsMap, filterTagIds) ==
  LET located == SelectSeq(items, LAMBDA episode : EpisodeCoords(episode.fieldData).ok)
      podcasts == [k \in 1..Len(located) |-> transformEpisode(located[k], tagsMap)]
  IN IF Len(filterTagIds) > 0
     THEN SelectSeq(podcasts,
                    LAMBDA podcast :
                      \E k \in 1..Len(podcast.tags) : InArray(podcast.tags[k].id, filterTagIds))
     ELSE podcasts

\* GET: the query string
ReadRequest(Params) ==
  /\ reader.pc = "idle"
  /\ \E param \in Params :
       reader' = [IdleReader EXCEPT !.pc = "query", !.route = "podcasts",
                                    !.tagIds = TagIdsParam(param)]
  /\ UNCHANGED <<db, env, now, handler, job, synced>>

\* GET: the store first; an exception of the store leads to the live fetch
FetchFromDatabase ==
  /\ reader.pc = "query"
  /\ \/ reader' = [reader EXCEPT !.pc = "answered", !.path = "store", !.status = 200,
                                 !.result = fetchFromDatabase(db, reader.tagIds)]
     \/ reader' = [reader EXCEPT !.pc = "fallback"]
  /\ UNCHANGED <<db, env, now, handler, job, synced>>

\* fetchFromWebflow: the tags, then the episodes.  fetchTagsFromCollection
\* catches a failed fetch and returns no tags; a failed fetch of the episodes
\* is the 500 reply.
FetchFromWebflow(listings) ==
  /\ reader.pc = "fallback"
  /\ \/ \E items \in listings[4], tagItems \in listings[1], tagsFailed \in BOOLEAN :
          LET listed == IF env.WEBFLOW_STORIES_COLLECTION_ID = "" THEN <<>> ELSE items
              tagged == IF env.WEBFLOW_STORY_TAGS_COLLECTION_ID = "" \/ tagsFailed
                        THEN <<>> ELSE tagItems
          IN reader' = [reader EXCEPT !.pc = "answered", !.path = "live", !.status = 200,
                                      !.items = listed, !.tags = tagged,
                                      !.tagsFailed = tagsFailed,
                                      !.result = getPodcastsFromWebflow(listed, TagsMap(tagged),
                                                                        reader.tagIds)]
     \/ reader' = [reader EXCEPT !.pc = "failed", !.status = 500]
  /\ UNCHANGED <<db, env, now, handler, job, synced>>

\* the call is over
FinishRead ==
  /\ reader.pc \in {"answered", "failed"}
  /\ reader' = IdleReader
  /\ UNCHANGED <<db, env, now, handler, job, synced>>

-----------------------------------------------------------------------------
(* The list endpoint of the places: GET /api/places, called without tags.  *)
(* Titles are one character long.                                          *)

\* the code unit of a character, which SQLite's BINARY collation compares
CharCode(c) ==
  CASE c = "B" -> 66 [] c = "D" -> 68 [] c = "a" -> 97 [] c = "c" -> 99

\* the collation key of a character: the letter first, then lower case before
\* upper case
CollationKey(c) ==
  CASE c = "a" -> <<1, 0>> [] c = "B" -> <<2, 1>> [] c = "c" -> <<3, 0>> [] c = "D" -> <<4, 1>>

\* a.localeCompare(b)
localeCompare(a, b) ==
  LET ka == CollationKey(a)
      kb == CollationKey(b)
  IN IF ka[1] < kb[1] \/ (ka[1] = kb[1] /\ ka[2] < kb[2]) THEN 0 - 1
     ELSE IF ka = kb THEN 0 ELSE 1

\* .orderBy(asc(places.title)): the rows in an order the column's BINARY
\* collation allows
OrderByTitle(rows) ==
  {list \in [1..Cardinality(rows) -> rows] :
     /\ \A i, j \in 1..Cardinality(rows) : i # j => list[i] # list[j]
     /\ \A i, j \in 1..Cardinality(rows) :
          i < j => CharCode(list[i].title) <= CharCode(list[j].title)}

\* places.sort((a, b) => a.title.localeCompare(b.title)): a stable sort
RECURSIVE SortByTitle(_)
SortByTitle(places) ==
  IF places = <<>> THEN <<>>
  ELSE LET last == places[Len(places)]
           front == SortByTitle(SubSeq(places, 1, Len(places) - 1))
           keep == {k \in 1..Len(front) : localeCompare(front[k].title, last.title) <= 0}
           n == Cardinality(keep)
       IN SubSeq(front, 1, n) \o <<last>> \o SubSeq(front, n + 1, Len(front))

\* transformPlace, for an item whose combined field parses
transformPlace(item, tagsMap) ==
  LET coords == CombinedCoords(item.fieldData.locationCoordinates)
      refs == TagIdsOf(item.fieldData)
      known == SelectSeq(refs, LAMBDA ref : \E tag \in tagsMap : tag.id = ExternalId(ref))
  IN [id |-> item.id, webflowItemId |-> item.id, title |-> item.fieldData.name,
      latitude |-> coords.latitude, longitude |-> coords.longitude,
      tags |-> [k \in 1..Len(known) |->
                  CHOOSE tag \in tagsMap : tag.id = ExternalId(known[k])]]

\* getPlacesFromWebflow without a filter: map, drop the nulls, sort
getPlacesFromWebflow(items, tagsMap) ==
  LET located == SelectSeq(items, LAMBDA item :
                             CombinedCoords(item.fieldData.locationCoordinates).ok)
  IN SortByTitle([k \in 1..Len(located) |-> transformPlace(located[k], tagsMap)])

PlacesRequest ==
  /\ reader.pc = "idle"
  /\ reader' = [IdleReader EXCEPT !.pc = "places_query", !.route = "places",
                                  !.tagIds = TagIdsParam(Null)]
  /\ UNCHANGED <<db, env, now, handler, job, synced>>

\* fetchFromDatabase of the places route, or its exception
PlacesFromDatabase ==
  /\ reader.pc = "places_query"
  /\ \/ \E placeList \in OrderByTitle(db.places) :
          reader' = [reader EXCEPT
                       !.pc = "answered", !.path = "store", !.status = 200,
                       !.result = [k \in 1..Len(placeList) |->
                                     [id |-> placeList[k].id,
                                      webflowItemId |-> placeList[k].webflowItemId,
                                      title |-> placeList[k].title,
                                      latitude |-> placeList[k].latitude,
                                      longitude |-> placeList[k].longitude,
                                      tags |-> {[id |-> t.id, name |-> t.name] :
                                                  t \in {x \in db.tags :
                                                           JunctionRow(placeList[k].id, x.id)
                                                             \in db.placeTags}}]]]
     \/ reader' = [reader EXCEPT !.pc = "places_fallback"]
  /\ UNCHANGED <<db, env, now, handler, job, synced>>

\* fetchFromWebflow of the places route
PlacesFromWebflow(listings) ==
  /\ reader.pc = "places_fallback"
  /\ \/ \E items \in listings[5], tagItems \in listings[2] :
          LET listed == IF env.WEBFLOW_PLACES_COLLECTION_ID = "" THEN <<>> ELSE items
              tagged == IF env.WEBFLOW_PLACE_TAGS_COLLECTION_ID = "" THEN <<>> ELSE tagItems
          IN reader' = [reader EXCEPT !.pc = "answered", !.path = "live", !.status = 200,
                                      !.items = listed, !.tags = tagged,
                                      !.result = getPlacesFromWebflow(listed, TagsMap(tagged))]
     \/ reader' = [reader EXCEPT !.pc = "failed", !.status = 500]
  /\ UNCHANGED <<db, env, now, handler, job, synced>>

-----------------------------------------------------------------------------
(* Inputs *)

Env(secret) ==
  [WEBFLOW_WEBHOOK_SECRET |-> secret,
   WEBFLOW_STORIES_COLLECTION_ID |-> "col-stories",
   WEBFLOW_PLACES_COLLECTION_ID |-> "col-places",
   WEBFLOW_INITIATIVES_COLLECTION_ID |-> "col-initiatives",
   WEBFLOW_STORY_TAGS_COLLECTION_ID |-> "col-story-tags",
   WEBFLOW_PLACE_TAGS_COLLECTION_ID |-> "col-place-tags",
   WEBFLOW_INITIATIVE_TAGS_COLLECTION_ID |-> "col-initiative-tags"]

\* "52.01, 4.35" and "not-a-number, 4.3"
GoodCoordString == Str(<<"5", "2", ".", "0", "1", ",", " ", "4", ".", "3", "5">>)
BadCoordString == Str(<<"n", "o", "t", "-", "a", "-", "n", "u", "m", "b", "e", "r", ",", " ", "4", ".", "3">>)

FieldData(name, coordString, lat2, lng2, tags) ==
  [name |-> name, locationCoordinates |-> coordString,
   latitude2 |-> lat2, longitude2 |-> lng2, tags |-> tags]

Item(id, collectionId, fieldData) ==
  [id |-> id, collectionId |-> collectionId, fieldData |-> fieldData]

NoTags == [present |-> FALSE, refs |-> <<>>]
Tags(refs) == [present |-> TRUE, refs |-> refs]

TagRefs == {"t1", "t2", "t3"}

RefLists(n) == UNION {[1..k -> TagRefs] : k \in 0..n}

TagItems ==
  {Item(t, "col-story-tags", FieldData("Nature", Undefined, Undefined, Undefined, NoTags)) :
     t \in TagRefs}

\* the reference lists a content type's items carry in the store runs
RefListsOf(contentType) ==
  IF contentType = "podcast" THEN RefLists(MaxRefs) ELSE {<<>>, <<"t1">>}

CollectionOf(contentType) ==
  CASE contentType = "podcast" -> "col-stories"
    [] contentType = "place" -> "col-places"
    [] contentType = "initiative" -> "col-initiatives"

ExternalIdOf(contentType) ==
  CASE contentType = "podcast" -> "e1"
    [] contentType = "place" -> "e2"
    [] contentType = "initiative" -> "e3"

EntityItem(contentType, coordString, tags) ==
  Item(ExternalIdOf(contentType), CollectionOf(contentType),
       FieldData("Forest Walk", coordString, Undefined, Undefined, tags))

StoryItem(id, coordString, tags) ==
  Item(id, "col-stories", FieldData("Forest Walk", coordString, Undefined, Undefined, tags))

\* upserts: every reference list with coordinates that parse, an item without
\* a list, one item with coordinates that do not parse, one without a name,
\* and a second story
UpsertItems ==
  TagItems
  \cup {EntityItem(ct, BadCoordString, Tags(<<>>)) : ct \in ContentTypes}
  \cup {EntityItem(ct, GoodCoordString, NoTags) : ct \in ContentTypes}
  \cup {Item("e1", "col-stories",
              FieldData(Missing, GoodCoordString, Undefined, Undefined, Tags(<<"t1">>))),
        StoryItem("e4", GoodCoordString, Tags(<<"t1">>))}
  \cup UNION {{EntityItem(ct, GoodCoordString, Tags(refs)) : refs \in RefListsOf(ct)} :
                ct \in ContentTypes}

DeleteItems ==
  TagItems \cup {EntityItem(ct, GoodCoordString, Tags(<<>>)) : ct \in ContentTypes}

\* a request the handler will not refuse while no secret is set
Unsigned(triggerType, item) ==
  [timestamp |-> Str(<<"4", "0", "0", "0", "0", "0">>), signature |-> Str(<<"-">>),
   body |-> [triggerType |-> triggerType, payload |-> item]]

StoreRequests ==
  {Unsigned("collection_item_changed", i) : i \in UpsertItems}
  \cup {Unsigned(triggerType, i) :
          triggerType \in {"collection_item_deleted", "collection_item_unpublished"},
          i \in DeleteItems}

\* the listings the source returns to the reconciliation job: items of distinct
\* external ids, in any order
Distinct(items) == \A a, b \in 1..Len(items) : a # b => items[a].id # items[b].id

Listings(Items) ==
  {items \in UNION {[1..n -> Items] : n \in 0..MaxItems} : Distinct(items)}

\* one story with every short reference list, present or absent, and a second
\* story beside it
SyncStoryItems ==
  {StoryItem("e1", GoodCoordString, tags) :
     tags \in {NoTags} \cup {Tags(refs) : refs \in {<<>>, <<"t1">>, <<"t2">>, <<"t1", "t2">>}}}
  \cup {StoryItem("e4", GoodCoordString, Tags(<<"t1">>)), StoryItem("e4", BadCoordString, NoTags),
        Item("e4", "col-stories",
             FieldData(Missing, GoodCoordString, Undefined, Undefined, NoTags))}

SyncListings ==
  [phase \in Phases |->
     CASE phase = 1 -> Listings({i \in TagItems : i.id \in {"t1", "t2"}})
       [] phase \in {2, 3} -> {<<>>}
       [] phase = 4 -> Listings(SyncStoryItems)
       [] phase = 5 -> Listings({EntityItem("place", GoodCoordString, tags) :
                                   tags \in {NoTags, Tags(<<"t1">>)}})
       [] phase = 6 -> Listings({EntityItem("initiative", GoodCoordString, tags) :
                                   tags \in {NoTags, Tags(<<"t1">>)}})]

\* field bags for the coordinate parser: the combined field, latitude-2 and
\* longitude-2, each absent or given in one of the shapes the source sends
ThreePartCoordString == Str(<<"1", ",", "2", ",", "3">>)
LatString == Str(<<"5", "2", ".", "0", "1">>)
LngString == Str(<<"4", ".", "3", "5">>)
LngStringWithUnit == Str(<<"4", ".", "3", "5", "d", "e", "g">>)
WordString == Str(<<"n", "o", "r", "t", "h">>)

CoordBag(coordString, lat2, lng2) ==
  [locationCoordinates |-> coordString, latitude2 |-> lat2, longitude2 |-> lng2]

CoordBags ==
  {CoordBag(GoodCoordString, Undefined, Undefined),
   CoordBag(GoodCoordString, Num(100), Num(200)),
   CoordBag(BadCoordString, Undefined, Undefined),
   CoordBag(BadCoordString, LatString, LngString),
   CoordBag(ThreePartCoordString, Undefined, Undefined),
   CoordBag(Undefined, LatString, LngString),
   CoordBag(Undefined, LatString, LngStringWithUnit),
   CoordBag(Undefined, Num(5201), Num(435)),
   CoordBag(Undefined, Null, Num(435)),
   CoordBag(Undefined, LatString, Null),
   CoordBag(Undefined, WordString, LngString),
   CoordBag(Undefined, LatString, Undefined),
   CoordBag(Undefined, Undefined, Undefined)}

\* the bags the places and the initiatives carry in the coordinate runs
FewCoordBags ==
  {CoordBag(GoodCoordString, Undefined, Undefined),
   CoordBag(BadCoordString, LatString, LngString),
   CoordBag(Undefined, Null, Num(435))}

CoordBagsOf(contentType) == IF contentType = "podcast" THEN CoordBags ELSE FewCoordBags

CoordItem(contentType, bag) ==
  Item(ExternalIdOf(contentType), CollectionOf(contentType),
       FieldData("Forest Walk", bag.locationCoordinates, bag.latitude2, bag.longitude2,
                 Tags(<<"t1">>)))

CoordItems(contentType) == {CoordItem(contentType, bag) : bag \in CoordBagsOf(contentType)}

CoordTagItems == {i \in TagItems : i.id = "t1"}

CoordRequests ==
  {Unsigned("collection_item_changed", i) :
     i \in CoordTagItems \cup UNION {CoordItems(ct) : ct \in ContentTypes}}
  \cup {Unsigned("collection_item_deleted", i) :
          i \in CoordTagItems \cup {EntityItem(ct, GoodCoordString, Tags(<<>>)) : ct \in ContentTypes}}

CoordListings ==
  [phase \in Phases |->
     CASE phase = 1 -> Listings(CoordTagItems)
       [] phase \in {2, 3} -> {<<>>}
       [] phase \in {4, 5, 6} -> Listings(CoordItems(PhaseType(phase)))]

\* the deliveries of the redelivery runs
RedeliverItems ==
  {i \in TagItems : i.id \in {"t1", "t2"}}
  \cup {EntityItem("podcast", GoodCoordString, tags) :
          tags \in {NoTags, Tags(<<"t1">>), Tags(<<"t1", "t2">>), Tags(<<"t1", "t1">>)}}
  \cup {EntityItem("podcast", BadCoordString, Tags(<<"t1">>)),
        EntityItem("place", GoodCoordString, Tags(<<"t1">>)),
        EntityItem("initiative", GoodCoordString, Tags(<<"t2">>))}

RedeliverRequests ==
  {Unsigned("collection_item_changed", i) : i \in RedeliverItems}
  \cup {Unsigned("collection_item_deleted", i) :
          i \in {j \in TagItems : j.id = "t1"} \cup {EntityItem("podcast", GoodCoordString, NoTags)}}

\* the deliveries of the authentication runs: every timestamp header with
\* every signature header on a few bodies
Secrets == {"k1", "k2"}

AuthBodies ==
  {[triggerType |-> "collection_item_changed", payload |-> i] :
     i \in {j \in TagItems : j.id = "t1"}
           \cup {EntityItem("podcast", GoodCoordString, Tags(<<"t1">>)),
                 EntityItem("podcast", GoodCoordString, Tags(<<"t1", "t1">>)),
                 Item("x1", "col-other", FieldData("Elsewhere", Undefined, Undefined, Undefined, NoTags))}}
  \cup {[triggerType |-> "collection_item_deleted", payload |-> i] :
          i \in {j \in TagItems : j.id = "t1"} \cup {EntityItem("podcast", GoodCoordString, NoTags)}}
  \cup {[triggerType |-> triggerType,
          payload |-> Item("t1", "col-other", FieldData("Elsewhere", Undefined, Undefined, Undefined, NoTags))] :
          triggerType \in {"collection_item_created", "collection_item_deleted",
                           "collection_item_unpublished"}}

\* at Epoch: aged 0, aged exactly MaxAge, aged MaxAge + 1; no number; empty; absent
FreshTimestamp == Str(<<"4", "0", "0", "0", "0", "0">>)
BoundaryTimestamp == Str(<<"1", "0", "0", "0", "0", "0">>)
StaleTimestamp == Str(<<"9", "9", "9", "9", "9">>)
WordTimestamp == Str(<<"s", "o", "o", "n">>)

AuthTimestamps ==
  {Null, Str(<<>>), FreshTimestamp, BoundaryTimestamp, StaleTimestamp, WordTimestamp}

\* the digest under the configured secret, under another secret, of another
\* body, cut short, drawn out, with its last character altered; absent
AuthSignatures(timestamp, body) ==
  LET good == ExpectedSignature(timestamp, body, "k1")
      other == ExpectedSignature(timestamp, body, "k2")
      moved == ExpectedSignature(timestamp, [body EXCEPT !.triggerType = "collection_item_created"], "k1")
  IN {Null, Str(good), Str(other), Str(moved),
      Str(SubSeq(good, 1, SigLen - 1)),
      Str(good \o <<other[1]>>),
      Str([good EXCEPT ![SigLen] = other[SigLen]])}

AuthRequests ==
  UNION {UNION {{[timestamp |-> t, signature |-> g, body |-> b] :
                   g \in AuthSignatures(t, b)} : t \in AuthTimestamps} : b \in AuthBodies}

\* the deliveries and the listings of the concurrent runs: one story, one tag
ConcurrentItems ==
  {i \in TagItems : i.id = "t1"} \cup {EntityItem("podcast", GoodCoordString, Tags(<<"t1">>))}

ConcurrentRequests ==
  {Unsigned(triggerType, i) :
     triggerType \in {"collection_item_changed", "collection_item_deleted"},
     i \in ConcurrentItems}

ConcurrentListings ==
  [phase \in Phases |->
     CASE phase = 1 -> Listings({i \in TagItems : i.id = "t1"})
       [] phase = 4 -> Listings({EntityItem("podcast", GoodCoordString, Tags(<<"t1">>))})
       [] OTHER -> {<<>>}]

-----------------------------------------------------------------------------
(* Specifications *)

Init ==
  /\ db = EmptyDb
  /\ env = Env("")
  /\ now = Epoch
  /\ handler = [p \in Handlers |-> IdleHandler]
  /\ job = IdleJob
  /\ synced = NoSynced
  /\ reader = IdleReader

Webhook(p) ==
  \/ Authenticate(p)
  \/ Route(p)
  \/ UpsertEntity(p)
  \/ SyncTagJunction(p)
  \/ DeleteEntity(p)
  \/ UpsertTag(p)
  \/ DeleteTag(p)
  \/ Acknowledge(p)
  \/ Finish(p)

\* one webhook delivery at a time, each run to its reply
Next ==
  \/ Receive(1, StoreRequests)
  \/ Webhook(1)

Spec == Init /\ [][Next]_vars


\* reconciliation runs, one after another
NextSync == Sync(SyncListings)

SpecSync == Init /\ [][NextSync]_vars

\* webhook deliveries and reconciliation runs over items of every coordinate shape,
\* one after another: a delivery is taken while no run is under way, a run is
\* started and carried on while no delivery is being handled
NextCoords ==
  \/ job.pc = "idle" /\ Receive(1, CoordRequests)
  \/ Webhook(1)
  \/ handler[1].pc = "idle" /\ Sync(CoordListings)

SpecCoords == Init /\ [][NextCoords]_vars

\* deliveries that the source may repeat, while the clock runs
NextRedeliver ==
  \/ Receive(1, RedeliverRequests)
  \/ Redeliver(1)
  \/ Webhook(1)
  \/ Tick

SpecRedeliver == Init /\ [][NextRedeliver]_vars

\* deliveries with every header shape, with and without a configured secret,
\* while the clock runs
InitAuth ==
  /\ db = EmptyDb
  /\ env \in {Env(""), Env("k1")}
  /\ now = Epoch
  /\ handler = [p \in Handlers |-> IdleHandler]
  /\ job = IdleJob
  /\ synced = NoSynced
  /\ reader = IdleReader

NextAuth ==
  \/ Receive(1, AuthRequests)
  \/ Webhook(1)
  \/ Tick

SpecAuth == InitAuth /\ [][NextAuth]_vars

\* webhook deliveries and reconciliation runs, one after another, while the
\* clock runs
NextTimed ==
  \/ NextCoords
  \/ Tick

SpecTimed == Init /\ [][NextTimed]_vars

\* two webhook handlers, each with one delivery, and one reconciliation run,
\* their statements interleaved, on a store that is empty, holds the tag, or
\* holds the tag and the story linked to it
LinkedStore ==
  [EmptyDb EXCEPT
     !.tags = {TagRow(<<"t1", 1>>, CHOOSE i \in TagItems : i.id = "t1")},
     !.stories = {EntityRow(<<"e1", 1>>, EntityItem("podcast", GoodCoordString, Tags(<<"t1">>)),
                            CombinedCoords(GoodCoordString), Epoch, Epoch)},
     !.storyTags = {JunctionRow(<<"e1", 1>>, <<"t1", 1>>)}]

StartingStores ==
  {EmptyDb, [EmptyDb EXCEPT !.tags = LinkedStore.tags], LinkedStore}

InitConcurrent ==
  /\ db \in StartingStores
  /\ env = Env("")
  /\ now = Epoch
  /\ handler = [p \in Handlers |-> IdleHandler]
  /\ job = IdleJob
  /\ synced = [NoSynced EXCEPT !.storyTags = db.storyTags]
  /\ reader = IdleReader

Delivery(p) ==
  \/ Receive(p, ConcurrentRequests)
  \/ Authenticate(p)
  \/ Route(p)
  \/ UpsertEntity(p)
  \/ SyncTagJunction(p)
  \/ DeleteEntity(p)
  \/ UpsertTag(p)
  \/ DeleteTag(p)
  \/ Acknowledge(p)

SyncRun(listings) ==
  \/ StartSync
  \/ fetchWebflowItems(listings)
  \/ syncTagsFromCollection
  \/ syncStories
  \/ syncStoryTagJunction
  \/ Continue

NextConcurrent ==
  \/ \E p \in Handlers : Delivery(p)
  \/ SyncRun(ConcurrentListings)

SpecConcurrent == InitConcurrent /\ [][NextConcurrent]_vars

-----------------------------------------------------------------------------
(* Properties of the store under webhook deliveries (Spec) *)

\* the handler's entity upsert has run to its end without an exception
UpsertCompleted(h) ==
  /\ h.pc \in {"applied", "acknowledged"}
  /\ h.contentType \in ContentTypes
  /\ ~h.isDelete
  /\ h.entityId # NoId

\* C1: once a webhook upsert of an entity has completed with nothing
\* interleaved, the entity's junction rows are exactly the local tags its
\* incoming reference list resolves to, whatever rows it had before.
TagReplacementIsTotal ==
  \A p \in Handlers :
    UpsertCompleted(handler[p]) =>
      JunctionOf(db, handler[p].contentType, handler[p].entityId)
        = ResolveTagIds(TagIdsOf(handler[p].req.body.payload.fieldData), db.tags)

\* a completed upsert that removed one tag, added another and kept a third
TagReplacementWitness ==
  \E p \in Handlers :
    LET h == handler[p]
        before == JunctionOf(h.pre, h.contentType, h.entityId)
        after == JunctionOf(db, h.contentType, h.entityId)
    IN /\ UpsertCompleted(h)
       /\ h.pc = "acknowledged"
       /\ before \ after # {}
       /\ after \ before # {}
       /\ before \cap after # {}

\* C4: at every instant the junction rows of every entity are exactly the
\* tag set of the entity's last completed update.
JunctionRowsMatchLastUpdate ==
  \A t \in JunctionTables : db[t] = synced[t]

\* the handler's delete of an existing row has run to its end
DeleteCompleted(h) ==
  /\ h.pc \in {"applied", "acknowledged"}
  /\ h.isDelete
  /\ h.existing # NoId

\* C7: after a delete or unpublish webhook for an entity no junction row
\* carries the entity's id; after one for a tag no junction row of any of the
\* three tables carries the tag's id, and the entities it was linked to remain.
CascadeOnDeletion ==
  \A p \in Handlers :
    LET h == handler[p]
    IN DeleteCompleted(h) =>
         IF h.contentType = "tag"
         THEN /\ \A t \in JunctionTables : \A j \in db[t] : j.tagId # h.existing
              /\ \A r \in db.tags : r.id # h.existing
              /\ \A ct \in ContentTypes :
                   \A e \in h.pre[EntityTable(ct)] :
                     h.existing \in JunctionOf(h.pre, ct, e.id) => e \in db[EntityTable(ct)]
         ELSE /\ \A j \in db[JunctionTable(h.contentType)] : j.entityId # h.existing
              /\ \A r \in db[EntityTable(h.contentType)] : r.id # h.existing

\* a tag delete that found rows of the tag in all three junction tables, the
\* three entities still in place
CascadeWitness ==
  /\ \E p \in Handlers :
       /\ DeleteCompleted(handler[p])
       /\ handler[p].contentType = "tag"
       /\ \A t \in JunctionTables :
            \E j \in handler[p].pre[t] : j.tagId = handler[p].existing
       /\ db.stories # {} /\ db.places # {} /\ db.initiatives # {}

-----------------------------------------------------------------------------
(* Properties of the store under reconciliation runs (SpecSync) *)

\* the job has processed an item whose entity was already in the store
ResyncCompleted(j) ==
  /\ j.pc = "applied"
  /\ j.contentType \in ContentTypes
  /\ j.existing # NoId
  /\ j.entityId # NoId

\* C2: once the reconciliation job has processed an item whose entity already
\* existed, the entity's junction rows are exactly the local tags the item's
\* reference list resolves to, an empty or absent list leaving none.
ReconciliationReplacesJunction ==
  ResyncCompleted(job) =>
    JunctionOf(db, job.contentType, job.entityId)
      = ResolveTagIds(TagIdsOf(job.item.fieldData), db.tags)

-----------------------------------------------------------------------------
(* Properties of the coordinates (SpecCoords) *)

\* the field bag yields a latitude and a longitude that are both numbers
ExtractionSucceeds(fieldData) ==
  LET coords == parseCoordinates(fieldData)
  IN coords.ok /\ coords.latitude.t = "number" /\ coords.longitude.t = "number"

\* frame f is inside the upsert of an entity
InEntityUpsert(f) ==
  /\ f.contentType \in ContentTypes
  /\ f.pc \in {"routed", "item", "upsert_write", "junction_delete", "junction_select",
               "junction_insert"}
  /\ (f.route = "webhook" => ~f.isDelete)

RowsHaveCoordinates ==
  \A t \in EntityTables :
    \A r \in db[t] : r.latitude.t = "number" /\ r.longitude.t = "number"

FailedExtractionWritesNothing ==
  /\ \A p \in Handlers :
       (handler'[p] # handler[p] /\ InEntityUpsert(handler[p])
          /\ ~ExtractionSucceeds(handler[p].req.body.payload.fieldData)) => db' = db
  /\ (job' # job /\ InEntityUpsert(job) /\ ~ExtractionSucceeds(job.item.fieldData))
       => db' = db

\* C5: through every sequence of webhook deliveries and reconciliation runs,
\* every row of stories, places and initiatives has a latitude and a longitude
\* that are numbers (neither null nor NaN), and no step of the upsert of an
\* item whose field bag fails coordinate extraction changes the store.
CoordinateInvariant ==
  [](RowsHaveCoordinates) /\ [][FailedExtractionWritesNothing]_vars

\* an update of an existing row was refused for a null latitude, a listed item
\* was passed over for coordinates that do not parse, and the rows are in place
CoordinateWitness ==
  /\ \E p \in Handlers :
       /\ handler[p].pc = "failed"
       /\ handler[p].contentType \in ContentTypes
       /\ handler[p].existing # NoId
       /\ ~ExtractionSucceeds(handler[p].req.body.payload.fieldData)
  /\ db.stories # {} /\ db.places # {} /\ db.initiatives # {}

\* the decision procedure as stated: the combined field alone decides when it
\* is present; the separate fields are read only when it is absent
StatedCoordinates(fieldData) ==
  IF fieldData.locationCoordinates.t # "undefined"
  THEN CombinedCoords(fieldData.locationCoordinates)
  ELSE LET discrete == DiscreteCoords(fieldData.latitude2, fieldData.longitude2)
       IN IF discrete.ok /\ discrete.latitude.t = "number" /\ discrete.longitude.t = "number"
          THEN discrete ELSE NoCoords

\* frame f has run the parser on its item
HasParsed(f) ==
  /\ f.contentType \in ContentTypes
  /\ f.pc \in {"upsert_write", "applied"}
  /\ (f.route = "webhook" => ~f.isDelete)

ParsedAsStated(f) ==
  HasParsed(f) =>
    IF f.pc = "upsert_write" THEN f.coords = StatedCoordinates(f.item.fieldData)
    ELSE (f.entityId = NoId => ~StatedCoordinates(f.item.fieldData).ok)

\* C6: for every field bag the parser accepts exactly when the stated
\* procedure accepts, with the stated values: a combined field that is
\* present decides alone, the separate fields being read only in its absence.
ParserFollowsProcedure ==
  /\ \A p \in Handlers : ParsedAsStated(handler[p])
  /\ ParsedAsStated(job)

-----------------------------------------------------------------------------
(* Properties of repeated deliveries (SpecRedeliver) *)

\* the second delivery of an entity upsert has run to its end
SecondUpsertCompleted(h) ==
  /\ UpsertCompleted(h)
  /\ h.pc = "acknowledged"
  /\ h.attempt = 2

RowsOf(d, contentType, webflowItemId) ==
  {r \in d[EntityTable(contentType)] : r.webflowItemId = webflowItemId}

ExceptUpdatedAt(rows) == {[r EXCEPT !.updatedAt = 0] : r \in rows}

-----------------------------------------------------------------------------
(* Properties of the authentication (SpecAuth) *)

HeaderMissing(v) == v.t = "null" \/ (v.t = "string" /\ v.s = <<>>)

\* the handler has answered 401
Rejected(h) == h.pc = "rejected" /\ h.status = 401

\* the handler has passed the request on to routing
Accepted(h) == h.pc \notin {"idle", "received", "rejected"}

\* the timestamp is a number of milliseconds more than MaxAge before now
OlderThanMaxAge(timestamp) ==
  /\ timestamp.t = "string"
  /\ parseInt(timestamp.s).t = "number"
  /\ now - parseInt(timestamp.s).n > MaxAge

\* the step in which handler p answers a request that carries both headers
Answers(p) ==
  /\ handler[p].pc = "received"
  /\ handler'[p].pc # "received"
  /\ ~HeaderMissing(handler[p].req.timestamp)
  /\ ~HeaderMissing(handler[p].req.signature)

RefusedLeavesStore(p) == handler[p].pc = "rejected" => db' = db

StaleIsRefusedUnderSecret ==
  \A p \in Handlers :
    /\ (Answers(p) /\ env.WEBFLOW_WEBHOOK_SECRET # ""
          /\ OlderThanMaxAge(handler[p].req.timestamp))
         => (Rejected(handler'[p]) /\ db' = db)
    /\ RefusedLeavesStore(p)

\* C8: while a secret is configured, a request whose timestamp is more than
\* 300 seconds older than the current time is answered 401 and the store is
\* left as it was, whether or not its signature is the right one.
ReplayRejection == [][StaleIsRefusedUnderSecret]_vars

\* a refused request that carried the right signature for its timestamp and body
ReplayRejectionWitness ==
  \E p \in Handlers :
    /\ Rejected(handler[p])
    /\ env.WEBFLOW_WEBHOOK_SECRET # ""
    /\ OlderThanMaxAge(handler[p].req.timestamp)
    /\ handler[p].req.signature.t = "string"
    /\ handler[p].req.signature.s
         = ExpectedSignature(handler[p].req.timestamp, handler[p].req.body,
                             env.WEBFLOW_WEBHOOK_SECRET)

StaleIsRefused ==
  \A p \in Handlers :
    /\ (Answers(p) /\ OlderThanMaxAge(handler[p].req.timestamp))
         => (Rejected(handler'[p]) /\ db' = db)
    /\ RefusedLeavesStore(p)

\* C8 as stated: every request whose timestamp is more than 300 seconds older
\* than the current time is answered 401 and leaves the store as it was.
ReplayRejectionAlways == [][StaleIsRefused]_vars

\* C9: a request without the timestamp header or without the signature
\* header is answered 401; while a secret is configured, a request is passed
\* on only if its signature is, character for character and in length, the
\* keyed hash of "{timestamp}:{rawBody}" under that secret, and is answered
\* 401 otherwise.
WebhookAuthentication ==
  \A p \in Handlers :
    LET h == handler[p]
        answered == h.pc \notin {"idle", "received"}
        expected == ExpectedSignature(h.req.timestamp, h.req.body, env.WEBFLOW_WEBHOOK_SECRET)
    IN /\ (answered /\ (HeaderMissing(h.req.timestamp) \/ HeaderMissing(h.req.signature)))
            => Rejected(h)
       /\ (answered /\ env.WEBFLOW_WEBHOOK_SECRET # "")
            => IF h.req.signature.t = "string" /\ h.req.signature.s = expected
               THEN Rejected(h) \/ Accepted(h)
               ELSE Rejected(h)

\* under a secret: a request passed on with the right signature, whose store
\* write has happened
WebhookAuthenticationWitness ==
  \E p \in Handlers :
    /\ env.WEBFLOW_WEBHOOK_SECRET # ""
    /\ handler[p].pc = "acknowledged"
    /\ handler[p].req.signature.s
         = ExpectedSignature(handler[p].req.timestamp, handler[p].req.body,
                             env.WEBFLOW_WEBHOOK_SECRET)
    /\ db # handler[p].pre

\* C10: while no secret is configured, a request that carries both headers is
\* passed on to routing and apply; none is answered 401 for the value of its
\* signature or of its timestamp.
NoSecretOptOut ==
  \A p \in Handlers :
    LET h == handler[p]
    IN (env.WEBFLOW_WEBHOOK_SECRET = "" /\ h.pc \notin {"idle", "received"}
          /\ ~HeaderMissing(h.req.timestamp) /\ ~HeaderMissing(h.req.signature))
         => (Accepted(h) /\ h.status # 401)

\* without a secret: an old timestamp and a signature under some other key,
\* applied to the store
NoSecretOptOutWitness ==
  \E p \in Handlers :
    /\ env.WEBFLOW_WEBHOOK_SECRET = ""
    /\ handler[p].pc = "acknowledged"
    /\ OlderThanMaxAge(handler[p].req.timestamp)
    /\ handler[p].req.signature.s
         = ExpectedSignature(handler[p].req.timestamp, handler[p].req.body, "k2")
    /\ db # handler[p].pre

-----------------------------------------------------------------------------
(* Properties of the routing (SpecAuth) *)

\* the collection ids the deployment names
ConfiguredCollections ==
  {env.WEBFLOW_STORIES_COLLECTION_ID, env.WEBFLOW_PLACES_COLLECTION_ID,
   env.WEBFLOW_INITIATIVES_COLLECTION_ID, env.WEBFLOW_STORY_TAGS_COLLECTION_ID,
   env.WEBFLOW_PLACE_TAGS_COLLECTION_ID, env.WEBFLOW_INITIATIVE_TAGS_COLLECTION_ID} \ {""}

\* the handler has passed authentication with a payload of no configured collection
UnknownCollection(h) ==
  /\ Accepted(h)
  /\ h.pc # "authenticated"
  /\ h.req.body.payload.collectionId \notin ConfiguredCollections

\* C11: an authenticated webhook whose collection id maps to no configured
\* kind is answered 200 and every table is as it was when the request
\* arrived, whatever the event type.
UnknownCollectionNoOp ==
  \A p \in Handlers :
    UnknownCollection(handler[p]) =>
      /\ handler[p].pc = "acknowledged"
      /\ handler[p].status = 200
      /\ db = handler[p].pre

\* a delete for an item of an unknown collection whose id is that of a stored,
\* linked tag, answered under a configured secret
UnknownCollectionWitness ==
  \E p \in Handlers :
    /\ UnknownCollection(handler[p])
    /\ handler[p].req.body.triggerType = "collection_item_deleted"
    /\ env.WEBFLOW_WEBHOOK_SECRET # ""
    /\ \E t \in db.tags : t.webflowItemId = handler[p].req.body.payload.id
    /\ db.storyTags # {}

-----------------------------------------------------------------------------
(* Properties of the replies (Spec) *)

\* the handler is applying a request of a known kind
Applying(h) ==
  h.pc \in {"routed", "upsert_write", "junction_delete", "junction_select",
            "junction_insert", "delete_junction", "delete_row", "tag_write",
            "tagdelete_row"}

\* the statement handler h is about to run is refused by the store: a NOT NULL,
\* UNIQUE, PRIMARY KEY or FOREIGN KEY constraint fails
StoreFaults(h) ==
  \/ /\ h.pc = "upsert_write"
     /\ IF h.existing = NoId
        THEN LET row == EntityRow(NoId, h.item, h.coords, h.nowAt, h.nowAt)
             IN ~EntityNotNullOk(row) \/ ~UniqueOk(db[EntityTable(h.contentType)], row)
        ELSE \E r \in UpdateEntityRows(db[EntityTable(h.contentType)], h.item, h.coords, h.nowAt) :
               ~EntityNotNullOk(r)
  \/ /\ h.pc = "junction_insert"
     /\ ~JunctionInsertOk(db, h.contentType, JunctionRow(h.entityId, h.tag))
  \/ /\ h.pc = "tag_write"
     /\ h.existing = NoId
     /\ ~TagNotNullOk(TagRow(NoId, h.item)) \/ ~UniqueOk(db.tags, TagRow(NoId, h.item))

\* the request is an entity upsert whose coordinates the parser refuses
SkippedForCoordinates(h) ==
  /\ h.contentType \in ContentTypes
  /\ ~h.isDelete
  /\ ~parseCoordinates(h.req.body.payload.fieldData).ok

RepliesFollowFaults ==
  \A p \in Handlers :
    LET h == handler[p]
        g == handler'[p]
    IN /\ (Applying(h) /\ g # h /\ ~StoreFaults(h)) => g.pc # "failed"
       /\ (g.pc = "failed" /\ h.pc # "failed") =>
            (Applying(h) /\ StoreFaults(h) /\ g.status = 500 /\ db' = db)
       /\ (h.pc = "applied" /\ g # h) => (g.pc = "acknowledged" /\ g.status = 200)
       /\ (h.pc = "routed" /\ g # h /\ SkippedForCoordinates(g)) =>
            (g.pc = "applied" /\ db' = db)

\* C12: a request routed to a known kind is answered 200 whenever its
\* processing runs to the end without a fault of the store, an item passed
\* over for its coordinates included (the store is then as it was); it is
\* answered 500 only when a statement was refused by the store.
WebhookAcknowledgement == [][RepliesFollowFaults]_vars

\* an item passed over for its coordinates and answered 200, beside a stored row
WebhookAcknowledgementWitness ==
  \E p \in Handlers :
    /\ handler[p].pc = "acknowledged"
    /\ handler[p].status = 200
    /\ SkippedForCoordinates(handler[p])
    /\ db = handler[p].pre
    /\ db.stories # {}

-----------------------------------------------------------------------------
(* The request state machine (SpecAuth) *)

\* the positions between "routed" and "applied": the statements of the apply
ApplySteps ==
  {"upsert_write", "junction_delete", "junction_select", "junction_insert",
   "delete_junction", "delete_row", "tag_write", "tagdelete_row"}

Positions ==
  {"idle", "received", "authenticated", "routed", "applied", "acknowledged",
   "rejected", "failed", "threw"} \cup ApplySteps

\* the moves of the state machine as stated; a request for an unknown
\* collection has nothing to apply and is acknowledged from "authenticated"
StatedMoves ==
  [from \in Positions |->
     CASE from = "idle" -> {"received"}
       [] from = "received" -> {"authenticated", "rejected"}
       [] from = "authenticated" -> {"routed", "acknowledged", "rejected"}
       [] from = "routed" -> ApplySteps \cup {"applied", "rejected"}
       [] from \in ApplySteps -> ApplySteps \cup {"applied"}
       [] from = "applied" -> {"acknowledged"}
       [] from \in {"acknowledged", "rejected"} -> {"idle"}
       [] OTHER -> {}]

\* the moves with the exit the statement leaves out: the 500 reply after a
\* fault of the store; no request is refused once it has been authenticated
ObservedMoves ==
  [from \in Positions |->
     CASE from = "authenticated" -> {"routed", "acknowledged"}
       [] from = "routed" -> ApplySteps \cup {"applied", "failed"}
       [] from \in ApplySteps -> ApplySteps \cup {"applied", "failed"}
       [] from = "failed" -> {"idle"}
       [] OTHER -> StatedMoves[from]]

StatusOf(pc) ==
  CASE pc = "acknowledged" -> 200
    [] pc = "rejected" -> 401
    [] pc = "failed" -> 500
    [] OTHER -> 0

\* the store is neither read nor written by a step taken before "routed"
NoStoreAccessBeforeRouted(h, g) ==
  (h.pc \in {"idle", "received", "authenticated", "rejected"} /\ g # h) =>
    /\ db' = db
    /\ g.existing = NoId /\ g.entityId = NoId /\ g.tag = NoId

RequestSteps(moves) ==
  \A p \in Handlers :
    LET h == handler[p]
        g == handler'[p]
    IN /\ g.pc # h.pc => g.pc \in moves[h.pc]
       /\ g.status = StatusOf(g.pc)
       /\ NoStoreAccessBeforeRouted(h, g)

ObservedRequestSteps == RequestSteps(ObservedMoves)

StatedRequestSteps == RequestSteps(StatedMoves)

-----------------------------------------------------------------------------
(* Properties of the rows' identity (SpecTimed) *)

\* a row r and its successor q in the next state, found by external id
KeepsIdentity(r, q) ==
  q.webflowItemId = r.webflowItemId => (q.id = r.id /\ q.createdAt = r.createdAt)

IdentityKept ==
  /\ \A t \in EntityTables : \A r \in db[t] : \A q \in db'[t] :
       /\ KeepsIdentity(r, q)
       /\ q.id = r.id => q.webflowItemId = r.webflowItemId
  /\ \A r \in db.tags : \A q \in db'.tags :
       q.webflowItemId = r.webflowItemId => q.id = r.id

\* C14: no step of a webhook upsert or of a reconciliation run changes the
\* local id, the external id or the creation timestamp of a row that is in the
\* store; as long as the row is not deleted they are those of its first insert.
LocalIdentityIsStable == [][IdentityKept]_vars

\* a row inserted by a webhook, then updated by a reconciliation run at a
\* later time
LocalIdentityWitness ==
  /\ job.pc = "applied"
  /\ job.contentType \in ContentTypes
  /\ job.existing # NoId
  /\ \E r \in db[EntityTable(job.contentType)] :
       /\ r.id = job.existing
       /\ r.updatedAt = job.nowAt
       /\ r.createdAt < r.updatedAt

-----------------------------------------------------------------------------
(* Properties under concurrent deliveries and runs (SpecConcurrent) *)

\* C15: in every reachable state, whatever the interleaving of webhook
\* deliveries and reconciliation runs, each entity table and the tag table
\* hold at most one row per external id.
ExternalIdIsUnique ==
  \A t \in EntityTables \cup {"tags"} :
    \A r, q \in db[t] : r.webflowItemId = q.webflowItemId => r = q

\* frame f looked its item up, found no row, and has yet to insert or has been
\* refused
ObservedNotFound(f) ==
  /\ f.contentType \in ContentTypes
  /\ f.existing = NoId
  /\ f.entityId = NoId
  /\ f.pc \in {"upsert_write", "failed"}

\* the two handlers raced on the same story: both found no row, one insert
\* went through and the other was refused
ExternalIdWitness ==
  /\ \A p \in Handlers : handler[p].item.id = "e1" /\ ~handler[p].isDelete
  /\ \E p \in Handlers : ObservedNotFound(handler[p]) /\ handler[p].pc = "failed"
  /\ \E p \in Handlers : handler[p].entityId # NoId /\ handler[p].existing = NoId
  /\ Cardinality(db.stories) = 1

\* C16: a webhook upsert that observed "not found" and whose insert is then
\* refused by the uniqueness constraint falls back to the update, so that it
\* is never answered 500 and both deliveries end with 200.
InsertRaceFallsBack ==
  \A p, q \in Handlers :
    LET loser == handler[p]
        winner == handler[q]
    IN (/\ p # q
        /\ ~loser.isDelete /\ ~winner.isDelete
        /\ ObservedNotFound(loser)
        /\ winner.contentType = loser.contentType
        /\ winner.item.id = loser.item.id
        /\ winner.existing = NoId
        /\ winner.entityId # NoId)
       => loser.pc # "failed"

-----------------------------------------------------------------------------
(* Reads beside reconciliation: a call of the list endpoint between runs *)

\* two tags; one story with no list, one tag or both, and a second story,
\* also with a combined field that does not parse beside separate fields that do
ReadListings ==
  [phase \in Phases |->
     CASE phase = 1 -> {<<t1, t2>> : t1 \in {i \in TagItems : i.id = "t1"},
                                     t2 \in {i \in TagItems : i.id = "t2"}}
       [] phase = 4 -> Listings({StoryItem("e1", GoodCoordString, tags) :
                                   tags \in {NoTags, Tags(<<"t1">>), Tags(<<"t1", "t2">>)}}
                                \cup {StoryItem("e4", GoodCoordString, Tags(<<"t2">>)),
                                      Item("e4", "col-stories",
                                           FieldData("Forest Walk", BadCoordString,
                                                     LatString, LngString, Tags(<<"t2">>)))})
       [] OTHER -> {<<>>}]

\* the tags parameter: absent, or up to two parts, each empty, a Webflow id or
\* a local id
ReadParts == {NoId, ExternalId("t1"), ExternalId("t2"), <<"t1", 1>>, <<"t2", 1>>}

ReadParams == {Null} \cup UNION {[1..n -> ReadParts] : n \in 1..2}

NextRead ==
  \/ reader.pc = "idle" /\ Sync(ReadListings)
  \/ job.pc = "idle" /\ ReadRequest(ReadParams)
  \/ FetchFromDatabase
  \/ FetchFromWebflow(ReadListings)
  \/ FinishRead

SpecRead == Init /\ [][NextRead]_vars

-----------------------------------------------------------------------------
(* Lists of places: up to two places in the store, up to two in the listing *)

PlaceItem(id, name) ==
  Item(id, "col-places", FieldData(name, GoodCoordString, Undefined, Undefined, NoTags))

PlaceItems == {PlaceItem(id, name) : id \in {"p1", "p2"}, name \in {"a", "B", "c", "D"}}

PlaceStores ==
  {[EmptyDb EXCEPT
      !.places = {EntityRow(<<i.id, 1>>, i, CombinedCoords(GoodCoordString), Epoch, Epoch) :
                    i \in chosen}] :
     chosen \in {c \in SUBSET PlaceItems : \A a, b \in c : a.id = b.id => a = b}}

PlaceListings ==
  [phase \in Phases |-> IF phase = 5 THEN Listings(PlaceItems) ELSE {<<>>}]

InitOrder ==
  /\ db \in PlaceStores
  /\ env = Env("")
  /\ now = Epoch
  /\ handler = [p \in Handlers |-> IdleHandler]
  /\ job = IdleJob
  /\ synced = NoSynced
  /\ reader = IdleReader

NextOrder ==
  \/ PlacesRequest
  \/ PlacesFromDatabase
  \/ PlacesFromWebflow(PlaceListings)
  \/ FinishRead

SpecOrder == InitOrder /\ [][NextOrder]_vars

-----------------------------------------------------------------------------
(* Pages of a tag collection: up to PageLimit items each, with or without a *)
(* pagination object, under any reported total                              *)

MaxTotal == 5

PageResponses ==
  {[items |-> items, pagination |-> pagination] :
     items \in UNION {[1..n -> {i \in TagItems : i.id \in {"t1", "t2"}}] : n \in 0..PageLimit},
     pagination \in {NoPagination} \cup {[present |-> TRUE, total |-> t] : t \in 0..MaxTotal}}

NextPages ==
  \/ StartFetch
  \/ FetchPage(PageResponses)
  \/ FinishFetch

SpecPages == Init /\ [][NextPages]_vars

-----------------------------------------------------------------------------
(* The frame of an entity upsert (Spec) *)

OtherRows(d, f) ==
  [t \in EntityTables |->
     {r \in d[t] : ~(t = EntityTable(f.contentType) /\ r.webflowItemId = f.item.id)}]

OtherJunctionRows(d, f, own) ==
  [t \in JunctionTables |->
     {j \in d[t] : ~(t = JunctionTable(f.contentType) /\ j.entityId \in own)}]

OwnIds(d, f) ==
  {r.id : r \in {x \in d[EntityTable(f.contentType)] : x.webflowItemId = f.item.id}}

UpsertFrame ==
  \A p \in Handlers :
    LET h == handler[p]
    IN (InEntityUpsert(h) /\ handler'[p] # h) =>
         /\ db'.tags = db.tags
         /\ OtherRows(db', h) = OtherRows(db, h)
         /\ OtherJunctionRows(db', h, OwnIds(db', h)) = OtherJunctionRows(db, h, OwnIds(db', h))
         /\ OwnIds(db, h) \subseteq OwnIds(db', h)

EmptyListLeavesNoRows ==
  \A p \in Handlers :
    LET h == handler[p]
    IN (UpsertCompleted(h) /\ TagIdsOf(h.req.body.payload.fieldData) = <<>>) =>
         /\ JunctionOf(db, h.contentType, h.entityId) = {}
         /\ OwnIds(db, h) = {h.entityId}

\* C17: no step of an entity upsert inserts, updates or deletes a tag row,
\* changes the row or the junction rows of another entity, or removes the
\* entity's own row; a re-upsert with an empty tag list ends with no junction
\* row of the entity, its row still there.
UpsertLeavesOthersUntouched == [](EmptyListLeavesNoRows) /\ [][UpsertFrame]_vars

\* a re-upsert with an empty list of a story that was linked to a tag, beside
\* another story linked to the same tag
UpsertFrameWitness ==
  \E p \in Handlers :
    LET h == handler[p]
    IN /\ UpsertCompleted(h)
       /\ h.existing # NoId
       /\ TagIdsOf(h.req.body.payload.fieldData) = <<>>
       /\ JunctionOf(h.pre, h.contentType, h.entityId) # {}
       /\ \E j \in db.storyTags : j.entityId # h.entityId
       /\ db.tags # {} /\ db.tags = h.pre.tags

-----------------------------------------------------------------------------
(* Faults of one item in a reconciliation run (SpecSync) *)

ItemSteps ==
  {"item", "upsert_write", "tag_write", "junction_delete", "junction_select",
   "junction_insert"}

\* C18: a fault on one item of a reconciliation run does not end the run: no
\* step on an item takes the run to its failure reply.
ItemFaultDoesNotAbort == [][job.pc \in ItemSteps => job'.pc # "failed"]_vars

-----------------------------------------------------------------------------
(* Reconciliation only adds and updates (SpecSync) *)

ListedIds(j) == {j.items[k].id : k \in 1..Len(j.items)}

RowIds(rows) == {r.id : r \in rows}

JunctionRowsOf(d, contentType, id) ==
  {j \in d[JunctionTable(contentType)] : j.entityId = id}

\* a step of the run deletes no entity row and no tag row, and leaves alone
\* every entity the listing at hand does not name
AdditiveStep ==
  job' # job =>
    /\ \A t \in EntityTables \cup {"tags"} : RowIds(db[t]) \subseteq RowIds(db'[t])
    /\ \A c \in ContentTypes :
         \A r \in db[EntityTable(c)] :
           r.webflowItemId \notin ListedIds(job) =>
             /\ r \in db'[EntityTable(c)]
             /\ JunctionRowsOf(db', c, r.id) = JunctionRowsOf(db, c, r.id)

\* C19: a reconciliation run never deletes an entity row or a tag row, and an
\* entity whose external id is not in the listing keeps its row, its fields
\* and its junction rows through every step of the run.
ReconciliationIsAdditive == [][AdditiveStep]_vars

\* a stories listing without e4 has been applied while e4 is in the store with
\* a junction row
ReconciliationIsAdditiveWitness ==
  /\ job.pc = "applied" /\ job.phase = 4
  /\ "e1" \in ListedIds(job) /\ "e4" \notin ListedIds(job)
  /\ \E r \in db.stories :
       /\ r.webflowItemId = "e4"
       /\ JunctionRowsOf(db, "podcast", r.id) # {}

-----------------------------------------------------------------------------
(* The two paths of the list endpoint (SpecRead) *)

\* the store holds what a reconciliation of the listing leaves: the listed
\* tags, the listed stories, and each story's junction rows for its list
InSync(d, items, tagItems) ==
  /\ {r.webflowItemId : r \in d.tags} = {tagItems[k].id : k \in 1..Len(tagItems)}
  /\ {r.webflowItemId : r \in d.stories} = {items[k].id : k \in 1..Len(items)}
  /\ \A k \in 1..Len(items) :
       /\ parseCoordinates(items[k].fieldData).ok
       /\ JunctionOf(d, "podcast", FindId(d.stories, items[k].id))
            = ResolveTagIds(TagIdsOf(items[k].fieldData), d.tags)

SelectedLive(r) == {r.result[k].webflowItemId : k \in 1..Len(r.result)}

SelectedStore(d, tagIds) == {x.webflowItemId : x \in fetchFromDatabase(d, tagIds)}

\* C20: for one request, the live fetch selects the entities the store path
\* selects when the store holds the listing.
PathsSelectSameEntities ==
  (/\ reader.pc = "answered" /\ reader.path = "live"
   /\ InSync(db, reader.items, reader.tags))
  => SelectedLive(reader) = SelectedStore(db, reader.tagIds)

-----------------------------------------------------------------------------
(* The fallback of the list endpoint (SpecRead) *)

\* C21: a call of the list endpoint on a store without stories is answered
\* from the live fetch, not from the store.
EmptyStoreFallsBack ==
  (reader.pc = "answered" /\ db.stories = {}) => reader.path = "live"

\* C22: the list endpoint answers 500 when the store and the live fetch both
\* fail, and gives no successful answer while a fetch it made has failed.
FailureIsSurfaced ==
  /\ reader.pc = "failed" => reader.status = 500
  /\ (reader.pc = "answered" /\ reader.path = "live") => ~reader.tagsFailed

-----------------------------------------------------------------------------
(* The mapping of the live fetch beside that of the sync routes (SpecRead) *)

\* C23: the live fetch accepts an item exactly when the sync routes' parser
\* does, and with the latitude and longitude that parser yields.
LiveMapsAsSync ==
  (reader.pc = "answered" /\ reader.path = "live" /\ reader.tagIds = <<>>) =>
    \A k \in 1..Len(reader.items) :
      LET item == reader.items[k]
          sync == parseCoordinates(item.fieldData)
          live == {n \in 1..Len(reader.result) : reader.result[n].webflowItemId = item.id}
      IN /\ sync.ok <=> live # {}
         /\ \A n \in live : /\ reader.result[n].latitude = sync.latitude
                            /\ reader.result[n].longitude = sync.longitude

-----------------------------------------------------------------------------
(* The order of the answers (SpecOrder) *)

\* the place of a title in the alphabet
Letter(title) == CollationKey(title)[1]

\* C24: on the store path and on the live path, the places are answered
\* alphabetically by title.
PlacesAreAlphabetical ==
  (reader.pc = "answered" /\ reader.route = "places") =>
    \A i, j \in 1..Len(reader.result) :
      i < j => Letter(reader.result[i].title) <= Letter(reader.result[j].title)

-----------------------------------------------------------------------------
(* References that name no tag (Spec) *)

Unresolved(refs, k, tagRows) == \A t \in tagRows : t.webflowItemId # refs[k]

\* the step on a reference that names no tag goes on to the next reference
\* and writes nothing
UnresolvedIsPassedOver ==
  \A p \in Handlers :
    LET h == handler[p]
    IN (/\ h.pc = "junction_select"
        /\ Unresolved(h.tagIds, h.i, db.tags)
        /\ handler'[p] # h) =>
         /\ handler'[p].pc \in {"junction_select", "applied"}
         /\ handler'[p].i = h.i + 1
         /\ db' = db

\* an upsert that met such a reference ended with a row for every reference
\* that names a tag, and with no other row
ResolvedAreLinked ==
  \A p \in Handlers :
    LET h == handler[p]
    IN (/\ UpsertCompleted(h)
        /\ \E k \in 1..Len(h.tagIds) : Unresolved(h.tagIds, k, db.tags)) =>
         {j.tagId : j \in {x \in db[JunctionTable(h.contentType)] : x.entityId = h.entityId}}
           = {t.id : t \in {x \in db.tags : \E k \in 1..Len(h.tagIds) : h.tagIds[k] = x.webflowItemId}}

\* C25: a tag reference that resolves to no tag yields no junction row and no
\* failure; the references that do resolve still get their rows.
UnresolvedReferencesAreDropped ==
  [](ResolvedAreLinked) /\ [][UnresolvedIsPassedOver]_vars

\* an acknowledged upsert whose list names a missing tag before a stored one
UnresolvedReferencesWitness ==
  \E p \in Handlers :
    LET h == handler[p]
    IN /\ UpsertCompleted(h) /\ h.pc = "acknowledged"
       /\ Len(h.tagIds) = 2
       /\ Unresolved(h.tagIds, 1, db.tags)
       /\ ~Unresolved(h.tagIds, 2, db.tags)
       /\ \E j \in db[JunctionTable(h.contentType)] : j.entityId = h.entityId

-----------------------------------------------------------------------------
(* The end of the page loop (SpecPages) *)

\* C26: fetchWebflowItems asks for a further page only after a page that
\* brought items: a page without items ends the loop.
EmptyPageEndsFetch ==
  [][(job.pc = "fetch_page" /\ job'.pc = "fetch_page")
       => Len(job'.items) > Len(job.items)]_vars

-----------------------------------------------------------------------------
(* The order of a reconciliation run (SpecSync) *)

InRun(j) == j.pc \notin {"idle", "done", "failed", "rejected"}

\* the run walks the collections in order, writes no entity before the tag
\* collections are done and no tag after
TagsFirstStep ==
  /\ (InRun(job) /\ InRun(job')) => job'.phase >= job.phase
  /\ (InRun(job) /\ job.phase <= 3) =>
       \A t \in EntityTables \cup JunctionTables : db'[t] = db[t]
  /\ (InRun(job) /\ job.phase >= 4) => db'.tags = db.tags

\* an applied entity has a junction row for each of its references that one of
\* the run's tag listings named
ListedReferencesResolve ==
  (job.pc = "applied" /\ job.contentType \in ContentTypes) =>
    \A k \in 1..Len(TagIdsOf(job.item.fieldData)) :
      LET ref == TagIdsOf(job.item.fieldData)[k]
      IN ref \in job.listed =>
           /\ FindId(db.tags, ref) # NoId
           /\ JunctionRow(job.entityId, FindId(db.tags, ref))
                \in db[JunctionTable(job.contentType)]

\* C27: in a reconciliation run the tag collections are upserted before the
\* first entity, so that each reference of an entity to a listed tag resolves
\* and has its junction row.
TagsBeforeEntities == [](ListedReferencesResolve) /\ [][TagsFirstStep]_vars

\* a story applied with a reference to a tag the same run listed
TagsBeforeEntitiesWitness ==
  /\ job.pc = "applied" /\ job.phase = 4
  /\ \E k \in 1..Len(job.tagIds) :
       /\ job.tagIds[k] \in job.listed
       /\ JunctionRow(job.entityId, FindId(db.tags, job.tagIds[k])) \in db.storyTags
  /\ \E t \in db.tags : t.webflowItemId \notin job.listed

-----------------------------------------------------------------------------
(* Referential integrity (SpecConcurrent) *)

\* C28: whatever the interleaving of upserts, deletes and reconciliation
\* steps, every junction row names an entity row of its kind and a tag row.
NoOrphanJunctionRows ==
  \A c \in ContentTypes :
    \A j \in db[JunctionTable(c)] :
      /\ \E e \in db[EntityTable(c)] : e.id = j.entityId
      /\ \E t \in db.tags : t.id = j.tagId

\* an upsert looked a tag up, a concurrent delete removed the tag, and the
\* upsert's insert of the junction row was refused
NoOrphanWitness ==
  \E p, q \in Handlers :
    /\ p # q
    /\ handler[p].pc = "failed" /\ ~handler[p].isDelete
    /\ handler[p].tag # NoId
    /\ \A t \in db.tags : t.id # handler[p].tag
    /\ handler[q].isDelete /\ handler[q].contentType = "tag"
    /\ handler[q].pc \in {"applied", "acknowledged"}

-----------------------------------------------------------------------------
(* Two upserts of one entity (SpecConcurrent) *)

Finished(h) == h.pc \in {"applied", "acknowledged", "failed"}

\* C29: when two webhook upserts of the same existing entity have both
\* finished, with no reconciliation run beside them, neither has failed and
\* the entity's junction rows are those of one of the two lists.
ConcurrentUpsertsReplace ==
  \A p, q \in Handlers :
    LET a == handler[p]
        b == handler[q]
    IN (/\ p # q /\ job.pc = "idle"
        /\ ~a.isDelete /\ ~b.isDelete
        /\ a.contentType \in ContentTypes /\ b.contentType = a.contentType
        /\ a.item.id = b.item.id
        /\ a.existing # NoId /\ b.existing # NoId
        /\ Finished(a) /\ Finished(b)) =>
         /\ a.pc # "failed" /\ b.pc # "failed"
         /\ JunctionOf(db, a.contentType, a.existing)
              \in {ResolveTagIds(a.tagIds, db.tags), ResolveTagIds(b.tagIds, db.tags)}

-----------------------------------------------------------------------------
(* A reference list that names a tag twice (Spec) *)

\* C30: an upsert whose list names a stored tag twice is acknowledged with
\* 200 and leaves one junction row for the pair.
RepeatedReferencesAreHarmless ==
  \A p \in Handlers :
    LET h == handler[p]
    IN (/\ h.pc \in Terminal
        /\ ~h.isDelete /\ h.contentType \in ContentTypes
        /\ h.entityId # NoId
        /\ \E i, j \in 1..Len(h.tagIds) :
             /\ i # j /\ h.tagIds[i] = h.tagIds[j]
             /\ FindId(db.tags, h.tagIds[i]) # NoId) =>
         /\ h.pc = "acknowledged" /\ h.status = 200
         /\ JunctionOf(db, h.contentType, h.entityId) = ResolveTagIds(h.tagIds, db.tags)

=============================================================================
